---- MODULE Spec2Model ----
(***************************************************************************)
(* The notification dispatch engine of the pager package: the standalone   *)
(* page() function with its module-level rate limiter and batch queue,     *)
(* processBatch(), sendNotification() and clearNotificationQueue().        *)
(*                                                                         *)
(* Strings that the code takes apart or puts together (backendUrl, apiKey, *)
(* error messages) are sequences of text pieces; the separator "|" is a    *)
(* piece of its own.  Times are milliseconds as returned by Date.now().    *)
(* One action is one run of the event loop: the synchronous part of a      *)
(* handler up to its next await.  Timers fire when they are due.           *)
(***************************************************************************)
EXTENDS Integers, Sequences, FiniteSets, TLC

VARIABLES
  now,                   \* the wall clock, Date.now()
  env,                   \* process.env, and window where there is one; fixed
                         \* for a run
  lastNotificationTime,  \* module-level rate limiting state, 0 = never set
  notificationQueue,     \* module-level batch queue
  batchTimeout,          \* <<>> (null) or <<timer>>: the pending flush timer
  requests,              \* the fetch() calls in flight, in the order issued
  flushes,               \* the runs of processBatch() that drained entries
  calls,                 \* per call of page(): the state of its promise
  event                  \* what the last step did: the call made, the
                         \* requests issued, the promises resolved

vars == <<now, env, lastNotificationTime, notificationQueue, batchTimeout,
          requests, flushes, calls, event>>

----------------------------------------------------------------------------
(* Bounds of the model *)

MaxCalls == 2
Epoch == 1

\* the instants, counted from the start, at which callers and the backend act
\* (timers add the instants at which they are due)
Instants == { 500, 1000, 1001 }

\* the calls made when the arguments and the environment are varied
ConfigCalls == 1

\* the calls and the instants of the throttle scenario
ThrottleCalls == 3
ThrottleInstants == { 250, 500, 1001 }

\* the calls made when the answers of the backend are varied
AnswerCalls == 2

\* the calls made when provider mounts and the standalone page() are mixed
MountCalls == 2

\* the calls made when callers wait as long as retryAfter says and call again
RetryCalls == 3

\* the calls made when the debug flag, the batch delay and the answers to a
\* batch are varied
DebugCalls == 2

(* Program constants *)

DEFAULT_THROTTLE_MS == 5000
DEFAULT_BATCH_DELAY_MS == 2000
REQUEST_TIMEOUT_MS == 10000

DEFAULT_BACKEND_URL == <<"/api/notifications">>

----------------------------------------------------------------------------
(* Values *)

NoOptions == <<>>

Has(obj, k) == k \in DOMAIN obj

\* { ...a, ...b }
Spread(a, b) ==
  [k \in DOMAIN a \cup DOMAIN b |-> IF k \in DOMAIN b THEN b[k] ELSE a[k]]

\* new Date(t).toISOString()
toISOString(t) == [iso |-> t]

\* obj?.k with undefined read as the falsy value of the field's type
StrField(obj, k) == IF Has(obj, k) THEN obj[k] ELSE <<>>
NumField(obj, k) == IF Has(obj, k) THEN obj[k] ELSE 0
BoolField(obj, k) == IF Has(obj, k) THEN obj[k] ELSE FALSE

\* a || b on strings and numbers
OrStr(a, b) == IF a # <<>> THEN a ELSE b
OrNum(a, b) == IF a # 0 THEN a ELSE b

\* Math.ceil(a / b) for b > 0
CeilDiv(a, b) == IF a % b = 0 THEN a \div b ELSE (a \div b) + 1

RECURSIVE SplitFrom(_, _, _)
\* s.split(sep) for a one-piece separator: the list of the parts of s
SplitFrom(s, sep, cur) ==
  IF s = <<>> THEN <<cur>>
  ELSE IF Head(s) = sep THEN <<cur>> \o SplitFrom(Tail(s), sep, <<>>)
  ELSE SplitFrom(Tail(s), sep, Append(cur, Head(s)))

Split(s, sep) == SplitFrom(s, sep, <<>>)

\* whether the pieces of part occur in s, in a row
Contains(s, part) ==
  \E i \in 0..(Len(s) - Len(part)) :
    \A j \in 1..Len(part) : s[i + j] = part[j]

----------------------------------------------------------------------------
(* The inputs of the model *)

EnvChoices == { <<>> }

\* the (configOrOptions, options) argument pairs the callers use
CallArgs ==
  { [configOrOptions |-> NoOptions, options |-> NoOptions],
    [configOrOptions |-> [batchingEnabled |-> TRUE, batchDelayMs |-> 1000],
     options |-> NoOptions],
    [configOrOptions |-> [batchingEnabled |-> TRUE],
     options |-> [priority |-> "high", batchingEnabled |-> TRUE]],
    [configOrOptions |-> [batchingEnabled |-> TRUE, backendUrl |-> <<"u">>,
                          apiKey |-> <<"k">>, throttleMs |-> 1000],
     options |-> [priority |-> "low"]] }

\* batched calls whose backendUrl or apiKey hold the separator of the group key
KeyArgs ==
  { [configOrOptions |-> [batchingEnabled |-> TRUE, backendUrl |-> <<"u">>,
                          apiKey |-> <<"k">>],
     options |-> NoOptions],
    [configOrOptions |-> [batchingEnabled |-> TRUE, backendUrl |-> <<"u">>,
                          apiKey |-> <<"k", "|", "2">>],
     options |-> NoOptions],
    [configOrOptions |-> [batchingEnabled |-> TRUE,
                          backendUrl |-> <<"u", "|", "k">>,
                          apiKey |-> <<"2">>],
     options |-> NoOptions] }

\* the environments and the arguments that exercise the overload and the
\* resolution of the configuration
ConfigEnvs ==
  { <<>>,
    [NEXT_PUBLIC_PAGER_API_KEY |-> <<"pk">>,
     NEXT_PUBLIC_PAGER_BACKEND_URL |-> <<"pu">>,
     NEXT_PUBLIC_PAGER_DEBUG |-> <<"true">>],
    [PAGER_API_KEY |-> <<"sk">>, PAGER_BACKEND_URL |-> <<"su">>,
     PAGER_DEBUG |-> <<"true">>],
    [NEXT_PUBLIC_PAGER_API_KEY |-> <<"pk">>, PAGER_API_KEY |-> <<"sk">>,
     NEXT_PUBLIC_PAGER_DEBUG |-> <<"false">>, PAGER_BACKEND_URL |-> <<"su">>],
    [window |-> <<"object">>, NEXT_PUBLIC_PAGER_API_KEY |-> <<"pk">>,
     NEXT_PUBLIC_PAGER_BACKEND_URL |-> <<"pu">>],
    [window |-> <<"object">>, PAGER_API_KEY |-> <<"sk">>,
     PAGER_BACKEND_URL |-> <<"su">>, PAGER_DEBUG |-> <<"true">>] }

ConfigArgs ==
  { [configOrOptions |-> NoOptions, options |-> NoOptions],
    [configOrOptions |-> [priority |-> "low", batchingEnabled |-> TRUE],
     options |-> NoOptions],
    [configOrOptions |-> NoOptions, options |-> [batchingEnabled |-> TRUE]],
    [configOrOptions |-> [priority |-> "high", apiKey |-> <<"k">>,
                          backendUrl |-> <<"u">>],
     options |-> NoOptions],
    [configOrOptions |-> [batchingEnabled |-> TRUE],
     options |-> [category |-> "c"]],
    [configOrOptions |-> [apiKey |-> <<>>, backendUrl |-> <<>>,
                          debug |-> FALSE, throttleMs |-> 0,
                          batchingEnabled |-> FALSE, batchDelayMs |-> 0],
     options |-> NoOptions],
    [configOrOptions |-> [apiKey |-> <<"k">>, backendUrl |-> <<"u">>,
                          debug |-> TRUE, throttleMs |-> 1000,
                          batchingEnabled |-> TRUE, batchDelayMs |-> 1000],
     options |-> [priority |-> "medium", tags |-> <<"t">>]],
    [configOrOptions |-> [category |-> "c"], options |-> NoOptions],
    [configOrOptions |-> [tags |-> <<"t">>, backendUrl |-> <<"u">>],
     options |-> [priority |-> "high"]],
    [configOrOptions |-> [metadata |-> [k |-> "v"]], options |-> NoOptions],
    [configOrOptions |-> [priority |-> "high", apiKey |-> <<"sk">>,
                          backendUrl |-> <<"su">>],
     options |-> NoOptions] }

\* solo calls with a throttle window of one second
ThrottleArgs ==
  { [configOrOptions |-> [throttleMs |-> 1000], options |-> NoOptions] }

\* solo calls with throttle windows of a whole and of a broken number of seconds
RetryArgs ==
  { [configOrOptions |-> [throttleMs |-> 1000], options |-> NoOptions],
    [configOrOptions |-> [throttleMs |-> 1500], options |-> NoOptions] }

\* how much longer than retryAfter a caller may wait, in milliseconds
Overslept == { 0, 250 }

\* solo calls, of default and of high priority
AnswerArgs ==
  { [configOrOptions |-> NoOptions, options |-> NoOptions],
    [configOrOptions |-> [priority |-> "high"], options |-> NoOptions] }

\* the provider mounts and the config prop of each: none, and the one of the
\* README with a throttle window of one second
Mounts == { 1, 2 }

MountProps(mount) ==
  IF mount = 1
  THEN <<>>
  ELSE [apiKey |-> <<"k">>, backendUrl |-> <<"u">>, throttleMs |-> 1000,
        batchingEnabled |-> TRUE, batchDelayMs |-> 1000]

\* the standalone calls made beside the mounts: one solo, one batched
StandaloneArgs ==
  { [configOrOptions |-> [throttleMs |-> 1000], options |-> NoOptions],
    [configOrOptions |-> [batchingEnabled |-> TRUE, batchDelayMs |-> 1000],
     options |-> NoOptions] }

\* solo and batched calls, with and without debug, whose batch delays and
\* destinations differ
DebugArgs ==
  { [configOrOptions |-> NoOptions, options |-> NoOptions],
    [configOrOptions |-> [debug |-> TRUE, throttleMs |-> 1000],
     options |-> NoOptions],
    [configOrOptions |-> [batchingEnabled |-> TRUE, batchDelayMs |-> 1000,
                          debug |-> TRUE],
     options |-> NoOptions],
    [configOrOptions |-> [batchingEnabled |-> TRUE, backendUrl |-> <<"u">>,
                          apiKey |-> <<"k">>],
     options |-> NoOptions] }

\* what the backend answers
JsonBodies ==
  { [id |-> "n1", batched |-> FALSE, batchSize |-> 0,
     timestamp |-> toISOString(0)] }
\* JSON bodies with and without a success field of their own
AnswerBodies ==
  { [id |-> "n1"],
    [success |-> TRUE, id |-> "n2"],
    [success |-> FALSE, error |-> <<"quota exceeded">>] }
\* JSON bodies that carry the fields processBatch() sets, with other values
OwnFieldBodies ==
  { [success |-> FALSE, batched |-> FALSE, batchSize |-> 0,
     timestamp |-> toISOString(0), error |-> <<"quota exceeded">>],
    [id |-> "n1"] }
NonJson == [nonJson |-> TRUE]
ErrorTexts == { <<>>, <<"Bad Gateway">> }
NetworkErrors == { <<"fetch failed">> }

----------------------------------------------------------------------------
(* page(): overload and configuration *)

\* Faulty variant: batchingEnabled, a field of both types, marks options too
IsOptionsOrBatching(configOrOptions) ==
  \/ Has(configOrOptions, "priority")
  \/ Has(configOrOptions, "category")
  \/ Has(configOrOptions, "tags")
  \/ Has(configOrOptions, "metadata")
  \/ Has(configOrOptions, "batchingEnabled")

\* typeof window !== "undefined"
IsBrowser(e) == Has(e, "window")

\* whether the second argument is notification options
IsOptions(configOrOptions) ==
  \/ Has(configOrOptions, "priority")
  \/ Has(configOrOptions, "category")
  \/ Has(configOrOptions, "tags")
  \/ Has(configOrOptions, "metadata")

ConfigOf(args) ==
  IF IsOptions(args.configOrOptions) THEN <<>> ELSE args.configOrOptions

NotificationOptionsOf(args) ==
  IF IsOptions(args.configOrOptions) THEN args.configOrOptions ELSE args.options

ResolveApiKey(config, e) ==
  OrStr(StrField(config, "apiKey"),
        OrStr(StrField(e, "NEXT_PUBLIC_PAGER_API_KEY"),
              OrStr(StrField(e, "PAGER_API_KEY"), <<>>)))

ResolveBackendUrl(config, e) ==
  OrStr(StrField(config, "backendUrl"),
        OrStr(StrField(e, "NEXT_PUBLIC_PAGER_BACKEND_URL"),
              OrStr(StrField(e, "PAGER_BACKEND_URL"), DEFAULT_BACKEND_URL)))

ResolveDebug(config, e) ==
  \/ BoolField(config, "debug")
  \/ StrField(e, "NEXT_PUBLIC_PAGER_DEBUG") = <<"true">>
  \/ StrField(e, "PAGER_DEBUG") = <<"true">>

ResolveThrottleMs(config) ==
  OrNum(NumField(config, "throttleMs"), DEFAULT_THROTTLE_MS)

ResolveBatchingEnabled(config) == BoolField(config, "batchingEnabled")

ResolveBatchDelayMs(config) ==
  OrNum(NumField(config, "batchDelayMs"), DEFAULT_BATCH_DELAY_MS)

IsHighPriority(notificationOptions) ==
  Has(notificationOptions, "priority") /\ notificationOptions.priority = "high"

----------------------------------------------------------------------------
(* page(): the rate limiter *)

\* Faulty variant: the window is closed one millisecond too long
ShouldThrottleInclusive(isHighPriority, t, last, throttleMs) ==
  /\ ~isHighPriority
  /\ last > 0
  /\ t - last <= throttleMs

\* Faulty variant: the window is counted from time 0 while the limiter is unset
ShouldThrottleFromZero(isHighPriority, t, last, throttleMs) ==
  /\ ~isHighPriority
  /\ t - last < throttleMs

ShouldThrottle(isHighPriority, t, last, throttleMs) ==
  /\ ~isHighPriority
  /\ last > 0
  /\ t - last < throttleMs

\* Faulty variant: the seconds are rounded down
RetryAfterSecFloor(t, last, throttleMs) == (throttleMs - (t - last)) \div 1000

\* Faulty variant: the seconds are rounded to the nearest
RetryAfterSecNearest(t, last, throttleMs) ==
  (throttleMs - (t - last) + 500) \div 1000

RetryAfterSec(t, last, throttleMs) == CeilDiv(throttleMs - (t - last), 1000)

RateLimitedResponse(t, last, throttleMs, timestamp) ==
  [success |-> FALSE,
   error |-> <<"Rate limited: Too many notifications. Try again in ",
               ToString(RetryAfterSec(t, last, throttleMs)), " seconds.">>,
   timestamp |-> timestamp,
   rateLimited |-> TRUE,
   retryAfter |-> RetryAfterSec(t, last, throttleMs)]

\* { message, ...notificationOptions, timestamp }
BuildPayload(message, notificationOptions, timestamp) ==
  Spread(Spread([message |-> message], notificationOptions),
         [timestamp |-> timestamp])

\* Faulty variant: the priority is not looked at
ShouldBatchAnyPriority(batchingEnabled, isHighPriority) == batchingEnabled

ShouldBatch(batchingEnabled, isHighPriority) ==
  batchingEnabled /\ ~isHighPriority

----------------------------------------------------------------------------
(* Promises *)

\* the promise of a call of page(), the time of the call, and how many
\* requests carried its payload
NewCall(route) ==
  [route |-> route, state |-> "pending", resolves |-> 0, sent |-> 0,
   at |-> now]

\* a throw that escapes the async function: the promise is rejected
Reject(call) ==
  [call EXCEPT !.state = IF @ = "pending" THEN "rejected" ELSE @]

\* resolve(response): only the first call of a promise's resolver settles it
Settle(call) ==
  [call EXCEPT !.state = IF @ = "pending" THEN "resolved" ELSE @,
               !.resolves = @ + 1]

\* what the caller of resolve(response) hands over, and to which promise
Settlement(c, response, timestamp) ==
  [call |-> c, response |-> response, timestamp |-> timestamp,
   first |-> calls[c].state = "pending"]

\* notifications.forEach(n => n.resolve(...)): the promises after it
ResolveEach(cs, notifications) ==
  [c \in DOMAIN cs |->
     IF \E i \in DOMAIN notifications : notifications[i].call = c
     THEN Settle(cs[c])
     ELSE cs[c]]

\* notifications.forEach(n => n.resolve(response of n)): what is handed over
Settlements(notifications, responses) ==
  [i \in DOMAIN notifications |->
     Settlement(notifications[i].call, responses[i],
                notifications[i].timestamp)]

Event(type, call, issued, settled) ==
  [type |-> type, call |-> call, issued |-> issued, settled |-> settled]

----------------------------------------------------------------------------
(* fetch() *)

Headers(apiKey) ==
  IF apiKey # <<>>
  THEN [ContentType |-> "application/json",
        Authorization |-> <<"Bearer ">> \o apiKey]
  ELSE [ContentType |-> "application/json"]

\* the fetch of sendNotification(): it carries the AbortController's signal
SoloRequest(c, payload, apiKey, backendUrl) ==
  [kind |-> "solo", url |-> backendUrl, headers |-> Headers(apiKey),
   body |-> payload, signal |-> TRUE, owner |-> c, group |-> 0,
   sentAt |-> now, phase |-> "fetch", ok |-> FALSE]

\* the fetch of processBatch(): it is given no signal
BatchRequest(f, g, group) ==
  LET parts == Split(group.key, "|")
      backendUrl == parts[1]
      apiKey == parts[2]
  IN  [kind |-> "batch", url |-> backendUrl \o <<"/batch">>,
       headers |-> Headers(apiKey),
       body |-> [notifications |->
                   [i \in DOMAIN group.notifications |->
                      group.notifications[i].payload],
                 timestamp |-> toISOString(now),
                 batchSize |-> Len(group.notifications)],
       signal |-> FALSE, owner |-> f, group |-> g,
       sentAt |-> now, phase |-> "fetch", ok |-> FALSE]

\* the request as sendNotification() awaits it: debug is a parameter of the
\* function and decides what it logs once the request has ended
WithDebug(request, debug) == Spread(request, [debug |-> debug])

AbortDeadline(r) == requests[r].sentAt + REQUEST_TIMEOUT_MS

\* setTimeout(() => controller.abort(), 10000) is set and not yet cleared
AbortTimerActive(r) == requests[r].signal /\ requests[r].phase = "fetch"

\* the requests in flight once request r has settled
Without(r) == SubSeq(requests, 1, r - 1) \o SubSeq(requests, r + 1, Len(requests))

\* the text of the message of the caller's c-th call
MessageOf(c) == <<"message ", ToString(c)>>

\* how many times the request carries the payload of call c
Carries(request, c) ==
  IF request.kind = "batch"
  THEN Cardinality({ j \in DOMAIN request.body.notifications :
                       request.body.notifications[j].message = MessageOf(c) })
  ELSE IF request.body.message = MessageOf(c) THEN 1 ELSE 0

\* the promises, with the payloads of the request just issued counted
Sent(cs, request) ==
  [c \in DOMAIN cs |-> [cs[c] EXCEPT !.sent = @ + Carries(request, c)]]

----------------------------------------------------------------------------
(* page() *)

\* Faulty variant: the throttled return stamps the limiter
ReturnRateLimitedStamping(call) ==
  /\ calls' = Append(calls, Settle(NewCall("throttled")))
  /\ event' = Event("call", call, <<>>,
       << [call |-> call.id,
           response |-> RateLimitedResponse(now, lastNotificationTime,
                                            call.cfg.throttleMs, call.timestamp),
           timestamp |-> call.timestamp, first |-> TRUE] >>)
  /\ lastNotificationTime' = now
  /\ UNCHANGED <<notificationQueue, batchTimeout, requests, flushes>>

\* the throttled return: a resolved promise and nothing else
ReturnRateLimited(call) ==
  /\ calls' = Append(calls, Settle(NewCall("throttled")))
  /\ event' = Event("call", call, <<>>,
       << [call |-> call.id,
           response |-> RateLimitedResponse(now, lastNotificationTime,
                                            call.cfg.throttleMs, call.timestamp),
           timestamp |-> call.timestamp, first |-> TRUE] >>)
  /\ UNCHANGED <<lastNotificationTime, notificationQueue, batchTimeout,
                 requests, flushes>>

\* Faulty variant: no timer is started while a processBatch() is running
EnqueueUnlessFlushing(call, payload) ==
  /\ calls' = Append(calls, NewCall("batched"))
  /\ notificationQueue' = Append(notificationQueue,
       [payload |-> payload, apiKey |-> call.cfg.apiKey,
        backendUrl |-> call.cfg.backendUrl, call |-> call.id,
        timestamp |-> call.timestamp])
  /\ batchTimeout' =
       IF batchTimeout = <<>> /\ \A f \in DOMAIN flushes : flushes[f].groups = <<>>
       THEN << [deadline |-> now + call.cfg.batchDelayMs,
                debug |-> call.cfg.debug] >>
       ELSE batchTimeout
  /\ event' = Event("call", call, <<>>, <<>>)
  /\ UNCHANGED <<lastNotificationTime, requests, flushes>>

\* Faulty variant: every enqueue starts the timer anew, from its own call
EnqueueRestartsTimer(call, payload) ==
  /\ calls' = Append(calls, NewCall("batched"))
  /\ notificationQueue' = Append(notificationQueue,
       [payload |-> payload, apiKey |-> call.cfg.apiKey,
        backendUrl |-> call.cfg.backendUrl, call |-> call.id,
        timestamp |-> call.timestamp])
  /\ batchTimeout' = << [deadline |-> now + call.cfg.batchDelayMs,
                         debug |-> call.cfg.debug] >>
  /\ event' = Event("call", call, <<>>, <<>>)
  /\ UNCHANGED <<lastNotificationTime, requests, flushes>>

\* notificationQueue.push(notification) and the timer, if none is active
Enqueue(call, payload) ==
  /\ calls' = Append(calls, NewCall("batched"))
  /\ notificationQueue' = Append(notificationQueue,
       [payload |-> payload, apiKey |-> call.cfg.apiKey,
        backendUrl |-> call.cfg.backendUrl, call |-> call.id,
        timestamp |-> call.timestamp])
  /\ batchTimeout' =
       IF batchTimeout = <<>>
       THEN << [deadline |-> now + call.cfg.batchDelayMs,
                debug |-> call.cfg.debug] >>
       ELSE batchTimeout
  /\ event' = Event("call", call, <<>>, <<>>)
  /\ UNCHANGED <<lastNotificationTime, requests, flushes>>

\* Faulty variant: the limiter is stamped when the request is sent
SendNotificationStamping(call, payload) ==
  LET request == WithDebug(SoloRequest(call.id, payload, call.cfg.apiKey,
                                      call.cfg.backendUrl),
                          call.cfg.debug)
  IN  /\ calls' = Append(calls, NewCall("solo"))
      /\ requests' = Append(requests, request)
      /\ lastNotificationTime' = now
      /\ event' = Event("call", call, <<request>>, <<>>)
      /\ UNCHANGED <<notificationQueue, batchTimeout, flushes>>

\* sendNotification() up to its await fetch(...)
SendNotification(call, payload) ==
  LET request == WithDebug(SoloRequest(call.id, payload, call.cfg.apiKey,
                                      call.cfg.backendUrl),
                          call.cfg.debug)
  IN  /\ calls' = Append(calls, NewCall("solo"))
      /\ requests' = Append(requests, request)
      /\ event' = Event("call", call, <<request>>, <<>>)
      /\ UNCHANGED <<lastNotificationTime, notificationQueue, batchTimeout,
                     flushes>>

\* Faulty variant: a limiter per endpoint and credential: the call is checked
\* against the limiter only if a send to its own backendUrl with its own
\* apiKey has been answered
PagePerEndpoint(message, args) ==
  LET config == ConfigOf(args)
      notificationOptions == NotificationOptionsOf(args)
      cfg == [apiKey |-> ResolveApiKey(config, env),
              backendUrl |-> ResolveBackendUrl(config, env),
              debug |-> ResolveDebug(config, env),
              throttleMs |-> ResolveThrottleMs(config),
              batchingEnabled |-> ResolveBatchingEnabled(config),
              batchDelayMs |-> ResolveBatchDelayMs(config)]
      timestamp == toISOString(now)
      isHighPriority == IsHighPriority(notificationOptions)
      payload == BuildPayload(message, notificationOptions, timestamp)
      call == [id |-> Len(calls) + 1, message |-> message, args |-> args,
               cfg |-> cfg, at |-> now, last |-> lastNotificationTime,
               timestamp |-> timestamp]
      own == \E r \in DOMAIN requests :
               /\ requests[r].kind = "solo"
               /\ requests[r].phase = "body"
               /\ requests[r].url = cfg.backendUrl
               /\ requests[r].headers = Headers(cfg.apiKey)
  IN  /\ IF own /\ ShouldThrottle(isHighPriority, now, lastNotificationTime,
                                   cfg.throttleMs)
         THEN ReturnRateLimited(call)
         ELSE IF ShouldBatch(cfg.batchingEnabled, isHighPriority)
         THEN Enqueue(call, payload)
         ELSE SendNotification(call, payload)
      /\ UNCHANGED <<now, env>>

Page(message, args) ==
  LET config == ConfigOf(args)
      notificationOptions == NotificationOptionsOf(args)
      cfg == [apiKey |-> ResolveApiKey(config, env),
              backendUrl |-> ResolveBackendUrl(config, env),
              debug |-> ResolveDebug(config, env),
              throttleMs |-> ResolveThrottleMs(config),
              batchingEnabled |-> ResolveBatchingEnabled(config),
              batchDelayMs |-> ResolveBatchDelayMs(config)]
      timestamp == toISOString(now)
      isHighPriority == IsHighPriority(notificationOptions)
      payload == BuildPayload(message, notificationOptions, timestamp)
      call == [id |-> Len(calls) + 1, message |-> message, args |-> args,
               cfg |-> cfg, at |-> now, last |-> lastNotificationTime,
               timestamp |-> timestamp]
  IN  /\ IF ShouldThrottle(isHighPriority, now, lastNotificationTime,
                           cfg.throttleMs)
         THEN ReturnRateLimited(call)
         ELSE IF ShouldBatch(cfg.batchingEnabled, isHighPriority)
         THEN Enqueue(call, payload)
         ELSE SendNotification(call, payload)
      /\ UNCHANGED <<now, env>>

----------------------------------------------------------------------------
(* sendNotification() after its await fetch(...) *)

\* Faulty variant: the limiter is not stamped when the response arrives
SoloFetchResolvedNoStamp(r, ok) ==
  /\ requests' = [requests EXCEPT ![r].phase = "body", ![r].ok = ok]
  /\ event' = Event("fetchResolved", requests[r], <<>>, <<>>)
  /\ UNCHANGED <<lastNotificationTime, notificationQueue, batchTimeout, calls,
                 flushes>>

\* Faulty variant: the limiter is stamped with the time the request was sent
SoloFetchResolvedStampsSendTime(r, ok) ==
  /\ requests' = [requests EXCEPT ![r].phase = "body", ![r].ok = ok]
  /\ lastNotificationTime' = requests[r].sentAt
  /\ event' = Event("fetchResolved", requests[r], <<>>, <<>>)
  /\ UNCHANGED <<notificationQueue, batchTimeout, calls, flushes>>

\* Faulty variant: the response to a high priority notification leaves the
\* limiter alone
SoloFetchResolvedSkipsHigh(r, ok) ==
  /\ requests' = [requests EXCEPT ![r].phase = "body", ![r].ok = ok]
  /\ lastNotificationTime' =
       IF IsHighPriority(requests[r].body) THEN lastNotificationTime ELSE now
  /\ event' = Event("fetchResolved", requests[r], <<>>, <<>>)
  /\ UNCHANGED <<notificationQueue, batchTimeout, calls, flushes>>

\* fetch() resolved with a Response: the abort timer is cleared, the limiter
\* is stamped, and the body is read next (response.json() or response.text())
SoloFetchResolved(r, ok) ==
  /\ requests' = [requests EXCEPT ![r].phase = "body", ![r].ok = ok]
  /\ lastNotificationTime' = now
  /\ event' = Event("fetchResolved", requests[r], <<>>, <<>>)
  /\ UNCHANGED <<notificationQueue, batchTimeout, calls, flushes>>

\* Faulty variant: the default success response takes the time of the answer
SoloResponseStampedLate(ok, body, payload) ==
  IF ~ok
  THEN [success |-> FALSE,
        error |-> <<"Failed to send notification: ">> \o body,
        timestamp |-> payload.timestamp]
  ELSE IF body = NonJson
  THEN [success |-> TRUE, timestamp |-> toISOString(now)]
  ELSE body

\* what sendNotification() returns once the body is read
SoloResponse(ok, body, payload) ==
  IF ~ok
  THEN [success |-> FALSE,
        error |-> <<"Failed to send notification: ">> \o body,
        timestamp |-> payload.timestamp]
  ELSE IF body = NonJson
  THEN [success |-> TRUE, timestamp |-> payload.timestamp]
  ELSE body

\* the request, with the body the backend answered it with
Answered(request, body) == Spread(request, [answer |-> body])

SoloBodyRead(r, body) ==
  /\ requests' = Without(r)
  /\ calls' = [calls EXCEPT ![requests[r].owner] = Settle(@)]
  /\ event' = Event("bodyRead", Answered(requests[r], body), <<>>,
       << Settlement(requests[r].owner,
                     SoloResponse(requests[r].ok, body, requests[r].body),
                     requests[r].body.timestamp) >>)
  /\ UNCHANGED <<lastNotificationTime, notificationQueue, batchTimeout, flushes>>

\* Faulty variant: the abort of the timer is reported with the error's message
SoloErrorResponseAnyMessage(isTimeout, message, payload) ==
  [success |-> FALSE, error |-> message, timestamp |-> payload.timestamp]

\* the outer catch of sendNotification()
SoloErrorResponse(isTimeout, message, payload) ==
  [success |-> FALSE,
   error |-> IF isTimeout
             THEN <<"Notification request ", "timed out after 10 seconds">>
             ELSE message,
   timestamp |-> payload.timestamp]

\* Faulty variant: the outer catch throws the error again, as the first
\* revisions of page() did
SoloFetchRethrown(r, isTimeout, message) ==
  /\ requests' = Without(r)
  /\ calls' = [calls EXCEPT ![requests[r].owner] = Reject(@)]
  /\ event' = Event(IF isTimeout THEN "aborted" ELSE "fetchRejected",
                    requests[r], <<>>, <<>>)
  /\ UNCHANGED <<lastNotificationTime, notificationQueue, batchTimeout, flushes>>

\* fetch() rejected: a network failure, or the abort of the 10 second timer
SoloFetchRejected(r, isTimeout, message) ==
  /\ requests' = Without(r)
  /\ calls' = [calls EXCEPT ![requests[r].owner] = Settle(@)]
  /\ event' = Event(IF isTimeout THEN "aborted" ELSE "fetchRejected",
       requests[r], <<>>,
       << Settlement(requests[r].owner,
                     SoloErrorResponse(isTimeout, message, requests[r].body),
                     requests[r].body.timestamp) >>)
  /\ UNCHANGED <<lastNotificationTime, notificationQueue, batchTimeout, flushes>>

----------------------------------------------------------------------------
(* PagerProvider: the page() function of a mount *)

\* resolvedConfig: the config prop, then the NEXT_PUBLIC_ values, then defaults
ResolveProviderConfig(props, e) ==
  [apiKey |-> OrStr(StrField(props, "apiKey"),
                    OrStr(StrField(e, "NEXT_PUBLIC_PAGER_API_KEY"), <<>>)),
   backendUrl |-> OrStr(StrField(props, "backendUrl"),
                        OrStr(StrField(e, "NEXT_PUBLIC_PAGER_BACKEND_URL"),
                              DEFAULT_BACKEND_URL)),
   debug |-> \/ BoolField(props, "debug")
             \/ StrField(e, "NEXT_PUBLIC_PAGER_DEBUG") = <<"true">>]

\* the fetch of the provider's page(): it carries the AbortController's signal
ProviderRequest(c, payload, resolvedConfig) ==
  [kind |-> "provider",
   url |-> OrStr(resolvedConfig.backendUrl, DEFAULT_BACKEND_URL),
   headers |-> Headers(resolvedConfig.apiKey),
   body |-> payload, signal |-> TRUE, owner |-> c, group |-> 0,
   sentAt |-> now, phase |-> "fetch", ok |-> FALSE]

\* the provider's page(message, options) up to its await fetch(...)
ProviderPage(mount, message, options) ==
  LET resolvedConfig == ResolveProviderConfig(MountProps(mount), env)
      timestamp == toISOString(now)
      payload == BuildPayload(message, options, timestamp)
      call == [id |-> Len(calls) + 1, message |-> message, mount |-> mount,
               options |-> options, cfg |-> resolvedConfig, at |-> now,
               last |-> lastNotificationTime, timestamp |-> timestamp]
      request == ProviderRequest(call.id, payload, resolvedConfig)
  IN  /\ calls' = Append(calls, Spread(NewCall("provider"), [mount |-> mount]))
      /\ requests' = Append(requests, request)
      /\ event' = Event("providerCall", call, <<request>>, <<>>)
      /\ UNCHANGED <<now, env, lastNotificationTime, notificationQueue,
                     batchTimeout, flushes>>

\* Faulty variant: the mounts stamp the limiter of the standalone page()
ProviderFetchResolvedStamping(r, ok) ==
  /\ requests' = [requests EXCEPT ![r].phase = "body", ![r].ok = ok]
  /\ lastNotificationTime' = now
  /\ event' = Event("fetchResolved", requests[r], <<>>, <<>>)
  /\ UNCHANGED <<notificationQueue, batchTimeout, calls, flushes>>

\* fetch() resolved with a Response: the abort timer is cleared and the body
\* is read next
ProviderFetchResolved(r, ok) ==
  /\ requests' = [requests EXCEPT ![r].phase = "body", ![r].ok = ok]
  /\ event' = Event("fetchResolved", requests[r], <<>>, <<>>)
  /\ UNCHANGED <<lastNotificationTime, notificationQueue, batchTimeout, calls,
                 flushes>>

\* the body is read: the statements are those of sendNotification()
ProviderBodyRead(r, body) == SoloBodyRead(r, body)

\* fetch() rejected: the outer catch, with the statements of sendNotification()
ProviderFetchRejected(r, isTimeout, message) ==
  SoloFetchRejected(r, isTimeout, message)

----------------------------------------------------------------------------
(* usePager() *)

\* useContext(PagerContext) in a component under mount scope, or under no
\* mount (scope 0): null, or the value the mount provides; the page function
\* of a mount is named by the mount
ContextOf(scope) ==
  IF scope = 0
  THEN <<>>
  ELSE << [config |-> ResolveProviderConfig(MountProps(scope), env),
           page |-> scope] >>

\* Faulty variant: the missing provider is not told, null is returned
UsePagerReturnsContext(scope) ==
  /\ event' = Event("usePager",
                    [scope |-> scope, threw |-> <<>>,
                     returned |-> <<ContextOf(scope)>>],
                    <<>>, <<>>)
  /\ UNCHANGED <<now, env, lastNotificationTime, notificationQueue,
                 batchTimeout, requests, flushes, calls>>

\* usePager(): it throws when there is no context, and returns it otherwise
UsePager(scope) ==
  /\ event' = Event("usePager",
                    IF ContextOf(scope) = <<>>
                    THEN [scope |-> scope,
                          threw |-> << <<"usePager must be used within a ",
                                         "PagerProvider">> >>,
                          returned |-> <<>>]
                    ELSE [scope |-> scope, threw |-> <<>>,
                          returned |-> <<ContextOf(scope)>>],
                    <<>>, <<>>)
  /\ UNCHANGED <<now, env, lastNotificationTime, notificationQueue,
                 batchTimeout, requests, flushes, calls>>

----------------------------------------------------------------------------
(* processBatch() *)

GroupKey(notification) ==
  notification.backendUrl \o <<"|">> \o notification.apiKey

RECURSIVE GroupKeys(_)
\* the keys of the Map, in the order of their first insertion
GroupKeys(queue) ==
  IF queue = <<>> THEN <<>>
  ELSE LET before == GroupKeys(SubSeq(queue, 1, Len(queue) - 1))
           key == GroupKey(queue[Len(queue)])
       IN  IF \E i \in DOMAIN before : before[i] = key
           THEN before
           ELSE Append(before, key)

\* Faulty variant: the entries of a group are listed newest first
GroupsNewestFirst(queue) ==
  LET keys == GroupKeys(queue)
      Entries(g) == SelectSeq(queue, LAMBDA n : GroupKey(n) = keys[g])
  IN  [g \in DOMAIN keys |->
         [key |-> keys[g],
          notifications |->
            [i \in DOMAIN Entries(g) |-> Entries(g)[Len(Entries(g)) + 1 - i]]]]

\* groups.entries()
Groups(queue) ==
  LET keys == GroupKeys(queue)
  IN  [g \in DOMAIN keys |->
         [key |-> keys[g],
          notifications |-> SelectSeq(queue, LAMBDA n : GroupKey(n) = keys[g])]]

\* Faulty variant: the failure is stamped with the time of the flush
BatchFailureStampedLate(errorText, notification) ==
  [success |-> FALSE,
   error |-> <<"Failed to send batch notification: ">> \o errorText,
   timestamp |-> toISOString(now)]

BatchFailure(errorText, notification) ==
  [success |-> FALSE,
   error |-> <<"Failed to send batch notification: ">> \o errorText,
   timestamp |-> notification.timestamp]

\* Faulty variant: the body's fields are spread last and win
BatchSuccessBodyLast(body, size, notification) ==
  Spread([success |-> TRUE, timestamp |-> notification.timestamp,
          batched |-> TRUE, batchSize |-> size],
         IF body = NonJson
         THEN [success |-> TRUE, timestamp |-> toISOString(now)]
         ELSE body)

\* Faulty variant: a success field of the body is kept
BatchSuccessKeepsSuccess(body, size, notification) ==
  Spread([success |-> TRUE],
         Spread(IF body = NonJson
                THEN [success |-> TRUE, timestamp |-> toISOString(now)]
                ELSE body,
                [timestamp |-> notification.timestamp,
                 batched |-> TRUE, batchSize |-> size]))

\* { ...responseData, success, timestamp, batched, batchSize }
BatchSuccess(body, size, notification) ==
  Spread(IF body = NonJson
         THEN [success |-> TRUE, timestamp |-> toISOString(now)]
         ELSE body,
         [success |-> TRUE, timestamp |-> notification.timestamp,
          batched |-> TRUE, batchSize |-> size])

\* a run of processBatch() that has returned
Returned == [groups |-> <<>>, debug |-> FALSE]

\* Faulty variant: the queue is copied but not cleared
ProcessBatchKeepsQueue(debug) ==
  /\ batchTimeout' = <<>>
  /\ IF notificationQueue = <<>>
     THEN /\ event' = Event("flush", <<>>, <<>>, <<>>)
          /\ UNCHANGED <<notificationQueue, requests, flushes, calls>>
     ELSE LET groups == Groups(notificationQueue)
              request == BatchRequest(Len(flushes) + 1, 1, groups[1])
          IN  /\ notificationQueue' = notificationQueue
              /\ flushes' = Append(flushes,
                   [groups |-> groups, debug |-> debug])
              /\ requests' = Append(requests, request)
              /\ calls' = Sent(calls, request)
              /\ event' = Event("flush", <<>>, <<request>>, <<>>)
  /\ UNCHANGED lastNotificationTime

\* the timer's callback, up to the first await fetch(...)
ProcessBatch(debug) ==
  /\ batchTimeout' = <<>>
  /\ IF notificationQueue = <<>>
     THEN /\ event' = Event("flush", <<>>, <<>>, <<>>)
          /\ UNCHANGED <<notificationQueue, requests, flushes, calls>>
     ELSE LET groups == Groups(notificationQueue)
              request == BatchRequest(Len(flushes) + 1, 1, groups[1])
          IN  /\ notificationQueue' = <<>>
              /\ flushes' = Append(flushes,
                   [groups |-> groups, debug |-> debug])
              /\ requests' = Append(requests, request)
              /\ calls' = Sent(calls, request)
              /\ event' = Event("flush", <<>>, <<request>>, <<>>)
  /\ UNCHANGED lastNotificationTime

\* Faulty variant: the batch response stamps the limiter as the solo one does
BatchFetchResolvedStamping(r, ok) ==
  /\ requests' = [requests EXCEPT ![r].phase = "body", ![r].ok = ok]
  /\ lastNotificationTime' = now
  /\ event' = Event("fetchResolved", requests[r], <<>>, <<>>)
  /\ UNCHANGED <<notificationQueue, batchTimeout, calls, flushes>>

\* fetch() resolved with a Response; the body is read next
BatchFetchResolved(r, ok) ==
  /\ requests' = [requests EXCEPT ![r].phase = "body", ![r].ok = ok]
  /\ event' = Event("fetchResolved", requests[r], <<>>, <<>>)
  /\ UNCHANGED <<lastNotificationTime, notificationQueue, batchTimeout, calls,
                 flushes>>

\* the group of request r is resolved and the for loop goes on: it fetches
\* for the next group, or processBatch() returns
BatchGroupDone(r, type, settled) ==
  LET f == requests[r].owner
      g == requests[r].group
      more == g < Len(flushes[f].groups)
      request == BatchRequest(f, g + 1, flushes[f].groups[g + 1])
      resolved == ResolveEach(calls, flushes[f].groups[g].notifications)
  IN  /\ requests' = IF more THEN Append(Without(r), request) ELSE Without(r)
      /\ calls' = IF more THEN Sent(resolved, request) ELSE resolved
      /\ flushes' = IF more THEN flushes ELSE [flushes EXCEPT ![f] = Returned]
      /\ event' = Event(type, requests[r],
                        IF more THEN <<request>> ELSE <<>>, settled)
      /\ UNCHANGED <<lastNotificationTime, notificationQueue, batchTimeout>>

\* the body is read: every notification of the group is resolved
BatchBodyRead(r, body) ==
  LET notifications ==
        flushes[requests[r].owner].groups[requests[r].group].notifications
      ok == [i \in DOMAIN notifications |->
               BatchSuccess(body, Len(notifications), notifications[i])]
      notOk == [i \in DOMAIN notifications |->
                  BatchFailure(body, notifications[i])]
  IN  BatchGroupDone(r, "bodyRead",
        Settlements(notifications, IF requests[r].ok THEN ok ELSE notOk))

\* Faulty variant: the catch of the group's try throws the error again, so
\* processBatch() stops there
BatchFetchRethrown(r, message) ==
  /\ requests' = Without(r)
  /\ flushes' = [flushes EXCEPT ![requests[r].owner] = Returned]
  /\ event' = Event("fetchRejected", requests[r], <<>>, <<>>)
  /\ UNCHANGED <<lastNotificationTime, notificationQueue, batchTimeout, calls>>

\* Faulty variant: one catch around the whole loop, so the failure of a group
\* fails the groups that were to follow it
BatchFetchRejectedFailsRest(r, message) ==
  LET f == requests[r].owner
      rest == { g \in DOMAIN flushes[f].groups : g >= requests[r].group }
      failed == { c \in DOMAIN calls :
                    \E g \in rest :
                      \E i \in DOMAIN flushes[f].groups[g].notifications :
                        flushes[f].groups[g].notifications[i].call = c }
      notifications == flushes[f].groups[requests[r].group].notifications
  IN  /\ requests' = Without(r)
      /\ calls' = [c \in DOMAIN calls |->
                     IF c \in failed THEN Settle(calls[c]) ELSE calls[c]]
      /\ flushes' = [flushes EXCEPT ![f] = Returned]
      /\ event' = Event("fetchRejected", requests[r], <<>>,
           Settlements(notifications,
             [i \in DOMAIN notifications |->
                BatchFailure(message, notifications[i])]))
      /\ UNCHANGED <<lastNotificationTime, notificationQueue, batchTimeout>>

\* fetch() rejected: the catch of the group's try
BatchFetchRejected(r, message) ==
  LET notifications ==
        flushes[requests[r].owner].groups[requests[r].group].notifications
      failed == [i \in DOMAIN notifications |->
                   BatchFailure(message, notifications[i])]
  IN  BatchGroupDone(r, "fetchRejected", Settlements(notifications, failed))

----------------------------------------------------------------------------
(* clearNotificationQueue() *)

QueueCleared(notification) ==
  [success |-> FALSE,
   error |-> <<"Notification queue was ", "cleared", " before sending">>,
   timestamp |-> notification.timestamp]

\* Faulty variant: the entries a running processBatch() holds are resolved too
ClearResolvesInFlight ==
  /\ batchTimeout' = <<>>
  /\ calls' = [c \in DOMAIN calls |->
       IF \/ \E i \in DOMAIN notificationQueue : notificationQueue[i].call = c
          \/ \E f \in DOMAIN flushes : \E g \in DOMAIN flushes[f].groups :
               \E i \in DOMAIN flushes[f].groups[g].notifications :
                 flushes[f].groups[g].notifications[i].call = c
       THEN Settle(calls[c])
       ELSE calls[c]]
  /\ notificationQueue' = <<>>
  /\ event' = Event("clear", <<>>, <<>>,
                    Settlements(notificationQueue,
                      [i \in DOMAIN notificationQueue |->
                         QueueCleared(notificationQueue[i])]))
  /\ UNCHANGED <<now, env, lastNotificationTime, requests, flushes>>

\* Faulty variant: the pending timer is left running
ClearKeepsTimer ==
  /\ calls' = ResolveEach(calls, notificationQueue)
  /\ notificationQueue' = <<>>
  /\ event' = Event("clear", <<>>, <<>>,
                    Settlements(notificationQueue,
                      [i \in DOMAIN notificationQueue |->
                         QueueCleared(notificationQueue[i])]))
  /\ UNCHANGED <<now, env, lastNotificationTime, batchTimeout, requests, flushes>>

ClearNotificationQueue ==
  /\ batchTimeout' = <<>>
  /\ calls' = ResolveEach(calls, notificationQueue)
  /\ notificationQueue' = <<>>
  /\ event' = Event("clear", <<>>, <<>>,
                    Settlements(notificationQueue,
                      [i \in DOMAIN notificationQueue |->
                         QueueCleared(notificationQueue[i])]))
  /\ UNCHANGED <<now, env, lastNotificationTime, requests, flushes>>

----------------------------------------------------------------------------
(* The environment: callers, the backend, timers and the clock *)

Call ==
  /\ Len(calls) < MaxCalls
  /\ \E args \in CallArgs : Page(MessageOf(Len(calls) + 1), args)

FetchResolves ==
  \E r \in DOMAIN requests, ok \in BOOLEAN :
    /\ requests[r].phase = "fetch"
    /\ IF requests[r].kind = "solo"
       THEN SoloFetchResolved(r, ok)
       ELSE IF requests[r].kind = "provider"
       THEN ProviderFetchResolved(r, ok)
       ELSE BatchFetchResolved(r, ok)
    /\ UNCHANGED <<now, env>>

\* the body of a response is read: one of the JSON bodies or a body that is
\* not JSON for a 2xx response, a text otherwise
BodyReadFrom(jsonBodies) ==
  \E r \in DOMAIN requests :
    /\ requests[r].phase = "body"
    /\ \E body \in IF requests[r].ok THEN jsonBodies \cup {NonJson} ELSE ErrorTexts :
         IF requests[r].kind = "solo"
         THEN SoloBodyRead(r, body)
         ELSE IF requests[r].kind = "provider"
         THEN ProviderBodyRead(r, body)
         ELSE BatchBodyRead(r, body)
    /\ UNCHANGED <<now, env>>

BodyRead == BodyReadFrom(JsonBodies)

FetchFails ==
  \E r \in DOMAIN requests, message \in NetworkErrors :
    /\ requests[r].phase = "fetch"
    /\ IF requests[r].kind = "solo"
       THEN SoloFetchRejected(r, FALSE, message)
       ELSE IF requests[r].kind = "provider"
       THEN ProviderFetchRejected(r, FALSE, message)
       ELSE BatchFetchRejected(r, message)
    /\ UNCHANGED <<now, env>>

\* the 10 second timer of a request fires: controller.abort()
AbortTimerFires ==
  \E r \in DOMAIN requests :
    /\ AbortTimerActive(r)
    /\ now = AbortDeadline(r)
    /\ IF requests[r].kind = "provider"
       THEN ProviderFetchRejected(r, TRUE, <<"This operation was aborted">>)
       ELSE SoloFetchRejected(r, TRUE, <<"This operation was aborted">>)
    /\ UNCHANGED <<now, env>>

BatchTimerFires ==
  /\ batchTimeout # <<>>
  /\ now = batchTimeout[1].deadline
  /\ ProcessBatch(batchTimeout[1].debug)
  /\ UNCHANGED <<now, env>>

\* the times at which some timer is due
Deadlines ==
  { batchTimeout[i].deadline : i \in DOMAIN batchTimeout }
    \cup { AbortDeadline(r) : r \in { q \in DOMAIN requests : AbortTimerActive(q) } }

\* time passes, to one of the instants or to the time a timer is due, but not
\* beyond a timer that is due
TickWithin(instants) ==
  /\ \E t \in { Epoch + i : i \in instants } \cup Deadlines :
       /\ t > now
       /\ \A d \in Deadlines : t <= d
       /\ now' = t
  /\ event' = Event("tick", <<>>, <<>>, <<>>)
  /\ UNCHANGED <<env, lastNotificationTime, notificationQueue, batchTimeout,
                 requests, flushes, calls>>

Tick == TickWithin(Instants)

Init ==
  /\ now = Epoch
  /\ env \in EnvChoices
  /\ lastNotificationTime = 0
  /\ notificationQueue = <<>>
  /\ batchTimeout = <<>>
  /\ requests = <<>>
  /\ flushes = <<>>
  /\ calls = <<>>
  /\ event = Event("init", <<>>, <<>>, <<>>)

Next ==
  \/ Call
  \/ FetchResolves
  \/ BodyRead
  \/ FetchFails
  \/ AbortTimerFires
  \/ BatchTimerFires
  \/ ClearNotificationQueue
  \/ Tick

Spec == Init /\ [][Next]_vars

\* processBatch() run on its own, whether or not its timer is due
Flush ==
  /\ ProcessBatch(FALSE)
  /\ UNCHANGED <<now, env>>

NextFlush == Next \/ Flush

\* callers that batch, with any of the KeyArgs
CallKeys ==
  /\ Len(calls) < MaxCalls
  /\ \E args \in KeyArgs : Page(MessageOf(Len(calls) + 1), args)

NextKeys ==
  \/ CallKeys
  \/ FetchResolves
  \/ BodyRead
  \/ FetchFails
  \/ BatchTimerFires
  \/ ClearNotificationQueue
  \/ Tick

\* the engine with batched calls only, for the grouping of processBatch()
SpecKeys == Init /\ [][NextKeys]_vars

\* one caller, any of the ConfigArgs, in any of the ConfigEnvs
CallConfig ==
  /\ Len(calls) < ConfigCalls
  /\ \E args \in ConfigArgs : Page(MessageOf(Len(calls) + 1), args)

InitConfig ==
  /\ now = Epoch
  /\ env \in ConfigEnvs
  /\ lastNotificationTime = 0
  /\ notificationQueue = <<>>
  /\ batchTimeout = <<>>
  /\ requests = <<>>
  /\ flushes = <<>>
  /\ calls = <<>>
  /\ event = Event("init", <<>>, <<>>, <<>>)

NextConfig ==
  \/ CallConfig
  \/ FetchResolves
  \/ BodyRead
  \/ FetchFails
  \/ AbortTimerFires
  \/ BatchTimerFires
  \/ ClearNotificationQueue
  \/ Tick

\* the engine under varied arguments and environments
SpecConfig == InitConfig /\ [][NextConfig]_vars

\* callers that send solo with throttleMs 1000
CallThrottle ==
  /\ Len(calls) < ThrottleCalls
  /\ \E args \in ThrottleArgs : Page(MessageOf(Len(calls) + 1), args)

TickThrottle == TickWithin(ThrottleInstants)

NextThrottle ==
  \/ CallThrottle
  \/ FetchResolves
  \/ BodyRead
  \/ FetchFails
  \/ AbortTimerFires
  \/ TickThrottle

\* the engine with solo calls only, for the throttle window
SpecThrottle == Init /\ [][NextThrottle]_vars

\* callers that send solo, answered with any of the AnswerBodies
CallAnswers ==
  /\ Len(calls) < AnswerCalls
  /\ \E args \in AnswerArgs : Page(MessageOf(Len(calls) + 1), args)

BodyReadAnswers == BodyReadFrom(AnswerBodies)

NextAnswers ==
  \/ CallAnswers
  \/ FetchResolves
  \/ BodyReadAnswers
  \/ FetchFails
  \/ AbortTimerFires
  \/ Tick

\* the engine with solo calls only, for what sendNotification() returns
SpecAnswers == Init /\ [][NextAnswers]_vars

\* a component calls the page() of one of the mounts
CallProvider ==
  /\ Len(calls) < MountCalls
  /\ \E mount \in Mounts, options \in { NoOptions, [priority |-> "high"] } :
       ProviderPage(mount, MessageOf(Len(calls) + 1), options)

\* the standalone page() is called beside the mounts
CallStandalone ==
  /\ Len(calls) < MountCalls
  /\ \E args \in StandaloneArgs : Page(MessageOf(Len(calls) + 1), args)

\* a component under one of the mounts, or under none, calls usePager()
CallUsePager == \E scope \in Mounts \cup { 0 } : UsePager(scope)

NextMounts ==
  \/ CallUsePager
  \/ CallProvider
  \/ CallStandalone
  \/ FetchResolves
  \/ BodyRead
  \/ FetchFails
  \/ AbortTimerFires
  \/ BatchTimerFires
  \/ ClearNotificationQueue
  \/ Tick

\* the standalone page() and the page() of two provider mounts, side by side
SpecMounts == Init /\ [][NextMounts]_vars

\* callers that differ in debug, batch delay and destination
CallDebug ==
  /\ Len(calls) < DebugCalls
  /\ \E args \in DebugArgs : Page(MessageOf(Len(calls) + 1), args)

BodyReadOwnFields == BodyReadFrom(OwnFieldBodies)

NextDebug ==
  \/ CallDebug
  \/ FetchResolves
  \/ BodyReadOwnFields
  \/ FetchFails
  \/ AbortTimerFires
  \/ BatchTimerFires
  \/ ClearNotificationQueue
  \/ Tick

\* the engine with callers that differ in debug, batch delay and destination,
\* and a backend whose JSON bodies carry fields of their own
SpecDebug == Init /\ [][NextDebug]_vars

\* callers that send solo, with any of the RetryArgs
CallRetryArgs ==
  /\ Len(calls) < RetryCalls
  /\ \E args \in RetryArgs : Page(MessageOf(Len(calls) + 1), args)

\* a caller whose call was just throttled waits retryAfter seconds, or a
\* little longer; it keeps the call it made and the response it got
Sleep ==
  /\ event.type = "call"
  /\ Len(event.settled) = 1
  /\ Has(event.settled[1].response, "retryAfter")
  /\ \E more \in Overslept :
       LET t == now + event.settled[1].response.retryAfter * 1000 + more
       IN  /\ \A d \in Deadlines : t <= d
           /\ now' = t
  /\ event' = Event("sleep", event.call, <<>>, event.settled)
  /\ UNCHANGED <<env, lastNotificationTime, notificationQueue, batchTimeout,
                 requests, flushes, calls>>

\* the caller that waited makes the same call again
CallAgain ==
  /\ event.type = "sleep"
  /\ Len(calls) < RetryCalls
  /\ Page(MessageOf(Len(calls) + 1), event.call.args)

NextRetry ==
  \/ CallRetryArgs
  \/ Sleep
  \/ CallAgain
  \/ FetchResolves
  \/ BodyRead
  \/ FetchFails
  \/ AbortTimerFires
  \/ TickThrottle

\* the engine with solo calls only and callers that follow retryAfter
SpecRetry == Init /\ [][NextRetry]_vars

\* the engine with flushes that do not wait for the timer
SpecFlush == Init /\ [][NextFlush]_vars

\* the engine with a clock that goes on, timers that fire and response bodies
\* that arrive once the headers have; the backend need not answer a request
FairSpec ==
  /\ Spec
  /\ WF_vars(Tick)
  /\ WF_vars(AbortTimerFires)
  /\ WF_vars(BatchTimerFires)
  /\ WF_vars(BodyRead)

----------------------------------------------------------------------------
(* What the properties look at *)

\* the notification options of the call the last step made
OptionsOf(e) == NotificationOptionsOf(e.call.args)

\* the last step was a call of page() that returned the rate limited response
RateLimited(e) ==
  /\ e.type = "call"
  /\ Len(e.settled) = 1
  /\ Has(e.settled[1].response, "rateLimited")
  /\ e.settled[1].response.rateLimited

\* a string that is not ""
NonEmpty(s) == \E i \in DOMAIN s : s[i] # ""

\* a failure response: success false and an error that says something
IsFailure(response) ==
  /\ response.success = FALSE
  /\ Has(response, "error")
  /\ NonEmpty(response.error)

\* the calls whose entries wait in the queue
Queued == { notificationQueue[i].call : i \in DOMAIN notificationQueue }

\* the calls whose entries a running processBatch() holds
Draining ==
  UNION { UNION { { flushes[f].groups[g].notifications[i].call :
                      i \in DOMAIN flushes[f].groups[g].notifications } :
                  g \in DOMAIN flushes[f].groups } :
          f \in DOMAIN flushes }

----------------------------------------------------------------------------
(* The rate limiter *)

\* C1: a call that is not of high priority and is throttled (the limiter is
\* set and less than the call's throttleMs have passed) issues no request,
\* adds nothing to the queue, starts no timer and leaves lastNotificationTime
\* as it was; its promise is resolved at once with success false and
\* rateLimited true.
C1_ThrottledCallFrame ==
  [][ ( /\ event'.type = "call"
        /\ ~IsHighPriority(OptionsOf(event'))
        /\ lastNotificationTime > 0
        /\ now - lastNotificationTime < event'.call.cfg.throttleMs )
      => /\ requests' = requests
         /\ event'.issued = <<>>
         /\ notificationQueue' = notificationQueue
         /\ batchTimeout' = batchTimeout
         /\ lastNotificationTime' = lastNotificationTime
         /\ calls'[event'.call.id].state = "resolved"
         /\ Len(event'.settled) = 1
         /\ event'.settled[1].call = event'.call.id
         /\ event'.settled[1].response.success = FALSE
         /\ event'.settled[1].response.rateLimited = TRUE ]_vars

\* a throttled call made while the body of an earlier response is being read
C1_Witness ==
  /\ RateLimited(event)
  /\ requests # <<>>
  /\ ~IsHighPriority(OptionsOf(event))
  /\ event.settled[1].response.success = FALSE
  /\ lastNotificationTime = event.call.last

\* C2: a call that is not of high priority is throttled if and only if
\* lastNotificationTime is set and now - lastNotificationTime is less than the
\* throttleMs resolved for the call; with the limiter unset it is not throttled.
C2_ThrottledIff ==
  ( event.type = "call" /\ ~IsHighPriority(OptionsOf(event)) )
  => ( RateLimited(event)
       <=> ( /\ event.call.last > 0
             /\ event.call.at - event.call.last
                  < OrNum(NumField(ConfigOf(event.call.args), "throttleMs"),
                          DEFAULT_THROTTLE_MS) ) )

\* a call made exactly throttleMs after the limiter was set: it is let through
C2_Witness ==
  /\ event.type = "call"
  /\ ~IsHighPriority(OptionsOf(event))
  /\ event.call.last > 0
  /\ event.call.at - event.call.last = event.call.cfg.throttleMs
  /\ ~RateLimited(event)

\* C3: a call of high priority is never throttled and never queued, whatever
\* lastNotificationTime is and whether or not batching is enabled in the
\* configuration or in the options: it issues a solo request with its payload.
C3_HighPriorityGoesSolo ==
  ( event.type = "call" /\ IsHighPriority(OptionsOf(event)) )
  => /\ ~RateLimited(event)
     /\ event.settled = <<>>
     /\ event.call.id \notin Queued
     /\ Len(event.issued) = 1
     /\ event.issued[1].kind = "solo"
     /\ event.issued[1].body.message = event.call.message
     /\ event.issued[1] = requests[Len(requests)]

\* a high priority call inside the throttle window, batching enabled in the
\* configuration and in the options
C3_Witness ==
  /\ event.type = "call"
  /\ IsHighPriority(OptionsOf(event))
  /\ event.call.last > 0
  /\ event.call.at - event.call.last < event.call.cfg.throttleMs
  /\ BoolField(ConfigOf(event.call.args), "batchingEnabled")
  /\ BoolField(OptionsOf(event), "batchingEnabled")
  /\ Len(event.issued) = 1

----------------------------------------------------------------------------
(* Failures *)

----------------------------------------------------------------------------
(* Batches *)

\* the entries of the queue all have the backendUrl and the apiKey of the first
SameDestination(queue) ==
  \A i \in DOMAIN queue :
    /\ queue[i].backendUrl = queue[1].backendUrl
    /\ queue[i].apiKey = queue[1].apiKey

\* C6: when the n >= 1 entries queued at the time the timer fires have the
\* same backendUrl and apiKey, the flush issues exactly one request, to
\* backendUrl + "/batch", whose body holds the n payloads and batchSize = n,
\* and no further request follows it; when a batch request is answered 2xx,
\* each of the n calls it carries is resolved with batched true and
\* batchSize n.
C6_OneRequestPerBatch ==
  [][ /\ ( /\ event'.type = "flush"
           /\ notificationQueue # <<>>
           /\ SameDestination(notificationQueue) )
         => /\ Len(event'.issued) = 1
            /\ requests' = Append(requests, event'.issued[1])
            /\ event'.issued[1].kind = "batch"
            /\ event'.issued[1].url
                 = notificationQueue[1].backendUrl \o <<"/batch">>
            /\ event'.issued[1].body.notifications
                 = [i \in DOMAIN notificationQueue |->
                      notificationQueue[i].payload]
            /\ event'.issued[1].body.batchSize = Len(notificationQueue)
            /\ Len(flushes'[Len(flushes')].groups) = 1
      /\ ( /\ event'.type \in { "bodyRead", "fetchRejected" }
           /\ event'.call.kind = "batch"
           /\ Len(flushes[event'.call.owner].groups) = 1 )
         => /\ event'.issued = <<>>
            /\ requests' = Without(CHOOSE r \in DOMAIN requests :
                                     requests[r].kind = "batch"
                                     /\ requests[r].owner = event'.call.owner)
      /\ ( /\ event'.type = "bodyRead"
           /\ event'.call.kind = "batch"
           /\ event'.call.ok )
         => /\ Len(event'.settled) = event'.call.body.batchSize
            /\ \A i \in DOMAIN event'.settled :
                 /\ Carries(event'.call, event'.settled[i].call) = 1
                 /\ event'.settled[i].first
                 /\ calls'[event'.settled[i].call].state = "resolved"
                 /\ event'.settled[i].response.success = TRUE
                 /\ event'.settled[i].response.batched = TRUE
                 /\ event'.settled[i].response.batchSize
                      = event'.call.body.batchSize
            /\ \A i, j \in DOMAIN event'.settled :
                 event'.settled[i].call = event'.settled[j].call => i = j ]_vars

\* a batch request with two payloads was answered 2xx with a JSON body and
\* both calls are resolved
C6_Witness ==
  /\ event.type = "bodyRead"
  /\ event.call.kind = "batch"
  /\ event.call.ok
  /\ event.call.body.batchSize = 2
  /\ Len(event.settled) = 2
  /\ event.settled[1].response.batched
  /\ Has(event.settled[1].response, "id")
  /\ requests = <<>>

\* C7: when the batch request of a group fails, with a response that is not
\* 2xx or with an error thrown by fetch, every entry of the group is resolved,
\* not rejected, with success false, an error that is not empty and no batched
\* field; once processBatch() has returned, no entry it took is left pending.
C7_BatchFailureResolvesAll ==
  /\ ( /\ event.type \in { "bodyRead", "fetchRejected" }
       /\ event.call.kind = "batch"
       /\ ~event.call.ok )
     => /\ Len(event.settled) = event.call.body.batchSize
        /\ \A c \in DOMAIN calls :
             Carries(event.call, c) = 1
             => \E i \in DOMAIN event.settled : event.settled[i].call = c
        /\ \A i \in DOMAIN event.settled :
             /\ Carries(event.call, event.settled[i].call) = 1
             /\ calls[event.settled[i].call].state = "resolved"
             /\ IsFailure(event.settled[i].response)
             /\ ~Has(event.settled[i].response, "batched")
  /\ \A c \in DOMAIN calls :
       ( calls[c].route = "batched" /\ calls[c].state # "resolved" )
       => c \in Queued \cup Draining

\* the batch request of a group of two failed on the network
C7_Witness ==
  /\ event.type = "fetchRejected"
  /\ event.call.kind = "batch"
  /\ event.call.body.batchSize = 2
  /\ Len(event.settled) = 2
  /\ \A c \in DOMAIN calls : calls[c].state = "resolved"
  /\ \A f \in DOMAIN flushes : flushes[f] = Returned

\* C8, as stated: every call of page(), solo or batched, is resolved in the
\* end even when the backend never answers, because the solo request and the
\* batch request are both aborted after 10 seconds.
C8_EveryCallResolved ==
  \A c \in 1..MaxCalls :
    [](Len(calls) >= c
         => <>(Len(calls) >= c /\ calls[c].state = "resolved"))

\* a batch request still awaited more than 10 seconds after it was sent
C8_Witness ==
  \E r \in DOMAIN requests :
    /\ requests[r].kind = "batch"
    /\ requests[r].phase = "fetch"
    /\ now > requests[r].sentAt + REQUEST_TIMEOUT_MS
    /\ \E c \in DOMAIN calls :
         Carries(requests[r], c) = 1 /\ calls[c].state = "pending"

----------------------------------------------------------------------------
(* clearNotificationQueue() and the queue *)

\* C9: clearNotificationQueue() cancels the pending timer, resolves every
\* entry then in the queue with success false and an error that contains
\* "cleared", and leaves the queue empty, without issuing a request; a
\* processBatch() run after it finds the queue empty and issues no request.
C9_ClearThenFlush ==
  [][ /\ event'.type = "clear"
         => /\ batchTimeout' = <<>>
            /\ notificationQueue' = <<>>
            /\ requests' = requests
            /\ event'.issued = <<>>
            /\ Len(event'.settled) = Len(notificationQueue)
            /\ \A i \in DOMAIN notificationQueue :
                 /\ event'.settled[i].call = notificationQueue[i].call
                 /\ event'.settled[i].response.success = FALSE
                 /\ Contains(event'.settled[i].response.error, <<"cleared">>)
                 /\ calls'[notificationQueue[i].call].state = "resolved"
      /\ ( event.type = "clear" /\ event'.type = "flush" )
         => /\ notificationQueue = <<>>
            /\ requests' = requests
            /\ event'.issued = <<>>
            /\ notificationQueue' = <<>>
            /\ calls' = calls ]_vars

\* a processBatch() that found the queue empty, after a clear that resolved
\* two entries which no request ever carried
C9_Witness ==
  /\ event.type = "flush"
  /\ event.issued = <<>>
  /\ requests = <<>>
  /\ Cardinality({ c \in DOMAIN calls :
                     /\ calls[c].route = "batched"
                     /\ calls[c].state = "resolved"
                     /\ calls[c].sent = 0 }) = 2

\* C10: processBatch() takes the whole queue and empties it in one step,
\* before any request: an entry queued while a flush is in flight is in no
\* request sent so far and waits for a timer of its own, and the payload of
\* an entry is carried by one batch request, never by two.
C10_DrainIsAtomic ==
  /\ ( event.type = "flush" /\ event.issued # <<>> )
     => notificationQueue = <<>> /\ batchTimeout = <<>>
  /\ \A c \in Queued :
       /\ calls[c].sent = 0
       /\ \A r \in DOMAIN requests : Carries(requests[r], c) = 0
       /\ batchTimeout # <<>>
  /\ \A c \in DOMAIN calls :
       calls[c].route = "batched"
       => /\ calls[c].sent <= 1
          /\ Cardinality({ r \in DOMAIN requests :
                             Carries(requests[r], c) > 0 }) <= calls[c].sent
          /\ \A r \in DOMAIN requests : Carries(requests[r], c) <= 1
  /\ ( event.type \in { "bodyRead", "fetchRejected" }
       /\ event.call.kind = "batch" )
     => \A i \in DOMAIN event.settled :
          calls[event.settled[i].call].sent = 1

\* an entry was queued while the request of an earlier flush is in flight: it
\* waits in the queue for a timer of its own
C10_Witness ==
  /\ event.type = "call"
  /\ event.call.id \in Queued
  /\ batchTimeout # <<>>
  /\ batchTimeout[1].deadline = now + event.call.cfg.batchDelayMs
  /\ \E r \in DOMAIN requests :
       /\ requests[r].kind = "batch"
       /\ requests[r].phase = "fetch"
       /\ Carries(requests[r], event.call.id) = 0

----------------------------------------------------------------------------
(* The queue and its timer *)

\* a processBatch() has taken entries and has not returned
FlushInFlight == \E f \in DOMAIN flushes : flushes[f] # Returned

\* the call whose payload this is
CallOf(payload) ==
  CHOOSE c \in DOMAIN calls : MessageOf(c) = payload.message

\* C11, as stated: the timer reference is non-null if and only if the queue
\* is not empty and no flush is in flight.
C11_TimerIffQueuedAndIdle ==
  batchTimeout # <<>> <=> ( notificationQueue # <<>> /\ ~FlushInFlight )

\* C11, as the code has it: the timer reference is non-null if and only if
\* the queue is not empty, whether or not a flush is in flight; there is never
\* more than one timer.
C11_TimerIffQueued ==
  /\ batchTimeout # <<>> <=> notificationQueue # <<>>
  /\ Len(batchTimeout) <= 1

\* an entry waits with its timer while a processBatch() awaits its request
C11_Witness ==
  /\ batchTimeout # <<>>
  /\ notificationQueue # <<>>
  /\ FlushInFlight
  /\ \E r \in DOMAIN requests : requests[r].kind = "batch"

\* C12: the notifications of a batch request are in the order in which their
\* calls were queued: of two entries sent in one request, the one queued
\* first comes first.
C12_PayloadsInQueueOrder ==
  \A r \in DOMAIN requests :
    requests[r].kind = "batch"
    => \A i, j \in DOMAIN requests[r].body.notifications :
         i < j => CallOf(requests[r].body.notifications[i])
                    < CallOf(requests[r].body.notifications[j])

\* a batch request that carries the payloads of two calls
C12_Witness ==
  \E r \in DOMAIN requests :
    /\ requests[r].kind = "batch"
    /\ requests[r].phase = "fetch"
    /\ Len(requests[r].body.notifications) = 2
    /\ requests[r].body.notifications[1].message = MessageOf(1)
    /\ requests[r].body.notifications[2].message = MessageOf(2)

\* the entries two notifications stand for go to the same place
SamePair(n1, n2) ==
  n1.backendUrl = n2.backendUrl /\ n1.apiKey = n2.apiKey

\* C13, as stated: the entries a flush took are partitioned by (backendUrl,
\* apiKey), for all strings: two entries are in the same group, hence in the
\* same request, if and only if both fields are equal, and the batchSize of a
\* request is the number of entries of its pair.
C13_PartitionByPair ==
  /\ \A f \in DOMAIN flushes :
       \A g, h \in DOMAIN flushes[f].groups :
         \A i \in DOMAIN flushes[f].groups[g].notifications :
           \A j \in DOMAIN flushes[f].groups[h].notifications :
             g = h <=> SamePair(flushes[f].groups[g].notifications[i],
                                flushes[f].groups[h].notifications[j])
  /\ \A r \in DOMAIN requests :
       requests[r].kind = "batch"
       => LET group == flushes[requests[r].owner].groups[requests[r].group]
          IN  /\ requests[r].body.batchSize = Len(group.notifications)
              /\ requests[r].body.notifications
                   = [i \in DOMAIN group.notifications |->
                        group.notifications[i].payload]

\* one batch request carries two entries whose backendUrl and apiKey differ
C13_Witness ==
  \E r \in DOMAIN requests :
    /\ requests[r].kind = "batch"
    /\ requests[r].body.batchSize = 2
    /\ LET group == flushes[requests[r].owner].groups[requests[r].group]
       IN  ~SamePair(group.notifications[1], group.notifications[2])

\* C14: queueing a batched call and flushing a batch, whether the batch
\* request succeeds or fails, leave lastNotificationTime as it was; so does
\* clearing the queue; and while no call was sent solo the limiter is unset.
C14_BatchesLeaveLimiter ==
  [][ /\ ( \/ /\ event'.type = "call"
              /\ \E i \in DOMAIN notificationQueue' :
                   notificationQueue'[i].call = event'.call.id
           \/ event'.type \in { "flush", "clear" }
           \/ /\ event'.type \in { "fetchResolved", "bodyRead", "fetchRejected" }
              /\ event'.call.kind = "batch" )
         => lastNotificationTime' = lastNotificationTime
      /\ ( \A c \in DOMAIN calls' : calls'[c].route # "solo" )
         => lastNotificationTime' = 0 ]_vars

\* a batch of two was sent and answered 2xx, and the limiter is still unset
C14_Witness ==
  /\ event.type = "bodyRead"
  /\ event.call.kind = "batch"
  /\ event.call.ok
  /\ Len(calls) = 2
  /\ \A c \in DOMAIN calls :
       calls[c].route = "batched" /\ calls[c].state = "resolved"
  /\ lastNotificationTime = 0

----------------------------------------------------------------------------
(* Arguments, configuration and payload *)

\* C15, as stated: a call that is not of high priority and is not throttled
\* is queued if and only if batchingEnabled is true in the resolved
\* configuration or in the notification options of the call; otherwise it is
\* sent solo.
C15_BatchedIffEnabledAnywhere ==
  ( /\ event.type = "call"
    /\ ~IsHighPriority(OptionsOf(event))
    /\ ~RateLimited(event) )
  => /\ event.call.id \in Queued
          <=> ( \/ BoolField(ConfigOf(event.call.args), "batchingEnabled")
                \/ BoolField(OptionsOf(event), "batchingEnabled") )
     /\ event.call.id \notin Queued
          => /\ Len(event.issued) = 1
             /\ event.issued[1].kind = "solo"

\* a call whose options ask for batching was sent solo
C15_Witness ==
  /\ event.type = "call"
  /\ ~IsHighPriority(OptionsOf(event))
  /\ BoolField(OptionsOf(event), "batchingEnabled")
  /\ Len(event.issued) = 1
  /\ event.issued[1].kind = "solo"
  /\ notificationQueue = <<>>

\* the fields a payload may hold, after PagerNotificationPayload
PayloadFields ==
  { "message", "timestamp", "priority", "category", "tags", "metadata" }

\* the payload holds the message, the call-time timestamp and the option
\* fields the caller gave, and nothing else
ExactPayload(payload, call) ==
  /\ DOMAIN payload \subseteq PayloadFields
  /\ payload.message = call.message
  /\ payload.timestamp = toISOString(call.at)
  /\ \A k \in PayloadFields \ { "message", "timestamp" } :
       /\ Has(payload, k) <=> Has(NotificationOptionsOf(call.args), k)
       /\ Has(payload, k) => payload[k] = NotificationOptionsOf(call.args)[k]

\* C16, as stated: the payload sent holds exactly the message, the call-time
\* timestamp and the fields priority, category, tags and metadata the caller
\* gave; it holds neither batchingEnabled nor a configuration field, and with
\* no options it holds message and timestamp only.
C16_PayloadHoldsOptionsOnly ==
  event.type = "call"
  => /\ \A i \in DOMAIN event.issued :
          ExactPayload(event.issued[i].body, event.call)
     /\ \A i \in DOMAIN notificationQueue :
          notificationQueue[i].call = event.call.id
          => ExactPayload(notificationQueue[i].payload, event.call)

\* the request of the call page(m, { priority, apiKey, backendUrl }): the
\* apiKey is in the body and in no header
C16_Witness ==
  \E r \in DOMAIN requests :
    /\ requests[r].kind = "solo"
    /\ Has(requests[r].body, "apiKey")
    /\ requests[r].body.apiKey = <<"k">>
    /\ ~Has(requests[r].headers, "Authorization")

\* the timestamp made when call c was made
CallTimestamp(c) == toISOString(calls[c].at)

\* C17: the timestamp of a notification is the one made when page() was
\* called: the payload in the queue, in a solo request and in a batch request
\* carries it, however late the flush, and so does the response a call is
\* resolved with when it is throttled, when its solo request fails or is
\* answered 2xx without JSON, when its batch succeeds or fails and when the
\* queue is cleared.
C17_CallTimeTimestamp ==
  /\ \A i \in DOMAIN notificationQueue :
       /\ notificationQueue[i].timestamp
            = CallTimestamp(notificationQueue[i].call)
       /\ notificationQueue[i].payload.timestamp
            = CallTimestamp(notificationQueue[i].call)
  /\ \A r \in DOMAIN requests :
       IF requests[r].kind = "solo"
       THEN requests[r].body.timestamp = CallTimestamp(requests[r].owner)
       ELSE \A i \in DOMAIN requests[r].body.notifications :
              requests[r].body.notifications[i].timestamp
                = CallTimestamp(CallOf(requests[r].body.notifications[i]))
  /\ \A i \in DOMAIN event.settled :
       event.settled[i].response \notin JsonBodies
       => /\ Has(event.settled[i].response, "timestamp")
          /\ event.settled[i].response.timestamp
               = CallTimestamp(event.settled[i].call)

\* a call is resolved from the JSON answer to a batch request sent later than
\* the call was made, with the timestamp of the call
C17_Witness ==
  /\ event.type = "bodyRead"
  /\ event.call.kind = "batch"
  /\ event.call.ok
  /\ Has(event.settled[1].response, "id")
  /\ event.settled[1].response.timestamp = CallTimestamp(event.settled[1].call)
  /\ event.call.body.timestamp # CallTimestamp(event.settled[1].call)
  /\ calls[event.settled[1].call].at < event.call.sentAt

\* the first of: the explicit value if the configuration has the field, the
\* ambient value if the environment has one, the default
Precedence(config, k, ambient, default) ==
  IF Has(config, k) THEN config[k]
  ELSE IF ambient # <<>> THEN ambient[1]
  ELSE default

\* the ambient values of a field: client-side name first, as page() reads them
Ambient(e, names) ==
  SelectSeq([i \in DOMAIN names |-> StrField(e, names[i])],
            LAMBDA v : v # <<>>)

AmbientFlags(e, names) ==
  [i \in DOMAIN Ambient(e, names) |-> Ambient(e, names)[i] = <<"true">>]

\* C18, as stated: each field of the resolved configuration is the explicit
\* value when the caller gave one, be it false, 0 or the empty string, else
\* the ambient value when there is one, else the default.
C18_ExplicitAmbientDefault ==
  event.type = "call"
  => LET config == ConfigOf(event.call.args)
         cfg == event.call.cfg
     IN  /\ cfg.apiKey
              = Precedence(config, "apiKey",
                  Ambient(env, <<"NEXT_PUBLIC_PAGER_API_KEY", "PAGER_API_KEY">>),
                  <<>>)
         /\ cfg.backendUrl
              = Precedence(config, "backendUrl",
                  Ambient(env, <<"NEXT_PUBLIC_PAGER_BACKEND_URL",
                                 "PAGER_BACKEND_URL">>),
                  DEFAULT_BACKEND_URL)
         /\ cfg.debug
              = Precedence(config, "debug",
                  AmbientFlags(env, <<"NEXT_PUBLIC_PAGER_DEBUG", "PAGER_DEBUG">>),
                  FALSE)
         /\ cfg.throttleMs
              = Precedence(config, "throttleMs", <<>>, DEFAULT_THROTTLE_MS)
         /\ cfg.batchingEnabled
              = Precedence(config, "batchingEnabled", <<>>, FALSE)
         /\ cfg.batchDelayMs
              = Precedence(config, "batchDelayMs", <<>>, DEFAULT_BATCH_DELAY_MS)

\* a call with debug: false and throttleMs: 0 given explicitly is resolved to
\* the ambient debug flag and to the default throttle
C18_Witness ==
  /\ event.type = "call"
  /\ Has(ConfigOf(event.call.args), "debug")
  /\ ConfigOf(event.call.args).debug = FALSE
  /\ ConfigOf(event.call.args).throttleMs = 0
  /\ event.call.cfg.debug = TRUE
  /\ event.call.cfg.throttleMs = DEFAULT_THROTTLE_MS

----------------------------------------------------------------------------
(* The throttle window *)

\* the least number of whole seconds that is not less than ms milliseconds
SecondsUp(ms) == CHOOSE n \in 0..ms : n * 1000 >= ms /\ (n - 1) * 1000 < ms

\* C19: the retryAfter of a rate limited response is the time left of the
\* window, throttleMs - (now - lastNotificationTime), in seconds rounded up;
\* the clock of the model never goes back, and retryAfter is at least 1 and at
\* most throttleMs in seconds rounded up.
C19_RetryAfterRoundedUp ==
  RateLimited(event)
  => LET left == event.call.cfg.throttleMs - (event.call.at - event.call.last)
         retryAfter == event.settled[1].response.retryAfter
     IN  /\ event.call.at >= event.call.last
         /\ retryAfter = SecondsUp(left)
         /\ retryAfter >= 1
         /\ retryAfter <= SecondsUp(event.call.cfg.throttleMs)
         /\ retryAfter * 1000 >= left

\* a call throttled with 4500 ms left of its window: retryAfter is 5
C19_Witness ==
  /\ RateLimited(event)
  /\ event.call.cfg.throttleMs - (event.call.at - event.call.last) = 4500
  /\ event.settled[1].response.retryAfter = 5

\* the scenario of the one second window: call 1 was made with a fresh limiter
\* at time 0, a response has arrived before time 500, and a later call is made
AfterFirstResponse ==
  /\ event.type = "call"
  /\ event.call.id > 1
  /\ event.call.cfg.throttleMs = 1000
  /\ calls[1].at = Epoch
  /\ calls[1].route = "solo"
  /\ event.call.last > 0
  /\ event.call.last < Epoch + 500

\* C20 as stated: with throttleMs 1000 and a fresh limiter, call A at time 0 is
\* sent solo; whenever its response arrives before time 500, call B at time 500
\* is throttled with retryAfter 1 and call C at time 1001 is not throttled and
\* is sent.
C20_WindowFromCall ==
  /\ (event.type = "call" /\ event.call.id = 1)
       => ~RateLimited(event) /\ Len(event.issued) = 1
  /\ AfterFirstResponse
       => /\ event.call.at = Epoch + 500
               => /\ RateLimited(event)
                  /\ event.settled[1].response.retryAfter = 1
          /\ event.call.at = Epoch + 1001
               => ~RateLimited(event) /\ Len(event.issued) = 1

\* C20 amended: call A at time 0 is sent solo and the limiter takes the time
\* its response arrives; call B at time 500 is throttled with retryAfter 1;
\* call C at time 1001 is throttled, with retryAfter 1, exactly when the
\* response arrived later than time 1, and is sent otherwise.
C20_WindowFromResponse ==
  /\ (event.type = "call" /\ event.call.id = 1)
       => ~RateLimited(event) /\ Len(event.issued) = 1
  /\ (event.type = "fetchResolved" /\ event.call.kind = "solo")
       => lastNotificationTime = now
  /\ AfterFirstResponse
       => /\ event.call.at = Epoch + 500
               => /\ RateLimited(event)
                  /\ event.settled[1].response.retryAfter = 1
          /\ event.call.at = Epoch + 1001
               => /\ RateLimited(event) <=> event.call.last > Epoch + 1
                  /\ RateLimited(event)
                       => event.settled[1].response.retryAfter = 1
                  /\ ~RateLimited(event) => Len(event.issued) = 1

\* A was called at time 0 and answered at time 250, B was throttled at time
\* 500, and C, called at time 1001, is throttled too
C20_Witness ==
  /\ AfterFirstResponse
  /\ event.call.id = 3
  /\ event.call.last = Epoch + 250
  /\ calls[2].at = Epoch + 500
  /\ calls[2].route = "throttled"
  /\ event.call.at = Epoch + 1001
  /\ RateLimited(event)
  /\ event.settled[1].response.retryAfter = 1

----------------------------------------------------------------------------
(* What a solo send resolves with *)

\* the last step read the body of a 2xx response to a solo request
SoloAnswered(e) ==
  /\ e.type = "bodyRead"
  /\ e.call.kind = "solo"
  /\ e.call.ok

\* C21: a solo send answered with 2xx and a JSON body resolves with the
\* fields of that body and with a success field that is a boolean, and that is
\* true when the body has no success field of its own.
C21_SuccessDefaultsTrue ==
  ( SoloAnswered(event) /\ event.call.answer # NonJson )
  => LET body == event.call.answer
         response == event.settled[1].response
     IN  /\ \A k \in DOMAIN body : Has(response, k) /\ response[k] = body[k]
         /\ Has(response, "success")
         /\ response.success \in BOOLEAN
         /\ ~Has(body, "success") => response.success = TRUE

\* a 2xx answer with a JSON body that has an id and no success field: the
\* promise is resolved with a response that has no success field
C21_Witness ==
  /\ SoloAnswered(event)
  /\ event.call.answer = [id |-> "n1"]
  /\ calls[event.call.owner].state = "resolved"
  /\ ~Has(event.settled[1].response, "success")

\* the text by which a timeout is told from the other transport errors
TimeoutText == <<"timed out after 10 seconds">>

\* the last step ended a solo send without a 2xx response
SoloFailed(e) ==
  \/ e.type = "bodyRead" /\ e.call.kind = "solo" /\ ~e.call.ok
  \/ e.type = "aborted"
  \/ e.type = "fetchRejected" /\ e.call.kind = "solo"

C23_DefaultSuccessResponse ==
  ( SoloAnswered(event) /\ event.call.answer = NonJson )
  => /\ Len(event.settled) = 1
     /\ event.settled[1].call = event.call.owner
     /\ calls[event.call.owner].state = "resolved"
     /\ event.settled[1].response =
          [success |-> TRUE,
           timestamp |-> toISOString(calls[event.call.owner].at)]

\* a body that is not JSON is read some time after the call was made
C23_Witness ==
  /\ SoloAnswered(event)
  /\ event.call.answer = NonJson
  /\ now > calls[event.call.owner].at
  /\ event.settled[1].response.success = TRUE

----------------------------------------------------------------------------
(* The provider's page() beside the standalone one *)

\* the step was taken by the page() of a provider mount: a call of it, or the
\* continuation of one of its requests
ProviderStep(e) ==
  \/ e.type = "providerCall"
  \/ /\ e.type \in { "fetchResolved", "bodyRead", "fetchRejected", "aborted" }
     /\ e.call.kind = "provider"

\* C24: a send made through a provider mount never changes the limiter, the
\* queue, the flush timer or the running flushes of the standalone page(), so
\* it never changes whether a standalone call is throttled; and whatever was
\* sent through the standalone page() or through another mount, a call through
\* a mount is not throttled and not queued: the mounts hold no such state.
C24_InstancesIndependent ==
  [][ /\ ProviderStep(event')
           => /\ lastNotificationTime' = lastNotificationTime
              /\ notificationQueue' = notificationQueue
              /\ batchTimeout' = batchTimeout
              /\ flushes' = flushes
      /\ event'.type = "providerCall"
           => /\ Len(event'.issued) = 1
              /\ event'.issued[1].kind = "provider"
              /\ event'.settled = <<>>
      /\ ( event'.type = "call" /\ ~IsHighPriority(OptionsOf(event')) )
           => ( RateLimited(event')
                <=> ShouldThrottle(FALSE, now, lastNotificationTime,
                                   event'.call.cfg.throttleMs) ) ]_vars

\* the response to a mount's request arrives after the standalone limiter was
\* stamped, and the limiter keeps its time
C24_Witness ==
  /\ event.type = "fetchResolved"
  /\ event.call.kind = "provider"
  /\ lastNotificationTime > 0
  /\ lastNotificationTime < now

\* the earlier calls through the mount whose send has completed and that were
\* made less than throttleMs ago
CompletedWithin(mount, throttleMs) ==
  { c \in DOMAIN calls :
      /\ c < event.call.id
      /\ calls[c].route = "provider"
      /\ calls[c].mount = mount
      /\ calls[c].state = "resolved"
      /\ now - calls[c].at < throttleMs }

\* C25: the page() of a provider mount follows the sequence of the standalone
\* one. A call that is not of high priority, made less than the mount's
\* throttleMs (5000 by default) after a send through the mount completed, is
\* resolved at once with rateLimited true and issues no request; and when the
\* mount's config has batchingEnabled, a call that is not of high priority and
\* not throttled is queued instead of sent.
C25_ProviderFollowsStandalone ==
  ( event.type = "providerCall" /\ ~IsHighPriority(event.call.options) )
  => LET props == MountProps(event.call.mount)
         throttled ==
           CompletedWithin(event.call.mount, ResolveThrottleMs(props)) # {}
     IN  /\ throttled
              => /\ event.issued = <<>>
                 /\ Len(event.settled) = 1
                 /\ Has(event.settled[1].response, "rateLimited")
                 /\ event.settled[1].response.rateLimited
         /\ ( ~throttled /\ ResolveBatchingEnabled(props) )
              => /\ event.issued = <<>>
                 /\ event.call.id \in Queued

\* a second call through the mount without props, 500 ms after the first,
\* whose send has completed: a second request is issued
C25_Witness ==
  /\ event.type = "providerCall"
  /\ event.call.mount = 1
  /\ event.call.id = 2
  /\ event.call.at = Epoch + 500
  /\ CompletedWithin(1, DEFAULT_THROTTLE_MS) = { 1 }
  /\ Len(event.issued) = 1
  /\ calls[2].state = "pending"

----------------------------------------------------------------------------
(* The arguments of page() *)

\* the keys that only notification options have
OptionKeys == { "priority", "category", "tags", "metadata" }

\* the payloads made for the call of the last step: in the requests it issued
\* and in the queue
PayloadsOf(e) ==
  { e.issued[i].body : i \in DOMAIN e.issued }
    \cup { notificationQueue[i].payload :
             i \in { j \in DOMAIN notificationQueue :
                       notificationQueue[j].call = e.call.id } }

\* C26: the second argument of page() is taken as notification options if and
\* only if it holds one of the keys priority, category, tags, metadata: the
\* payload is then made of its fields and the configuration is resolved as if
\* none was given. Otherwise it is taken as configuration, and the payload is
\* made of the fields of the third argument. (A throttled call makes no
\* payload; its configuration is resolved all the same.)
C26_SecondArgument ==
  event.type = "call"
  => LET args == event.call.args
         asOptions == DOMAIN args.configOrOptions \cap OptionKeys # {}
         options == IF asOptions THEN args.configOrOptions ELSE args.options
         config == IF asOptions THEN <<>> ELSE args.configOrOptions
     IN  /\ event.call.cfg.backendUrl = ResolveBackendUrl(config, env)
         /\ event.call.cfg.apiKey = ResolveApiKey(config, env)
         /\ event.call.cfg.throttleMs = ResolveThrottleMs(config)
         /\ event.call.cfg.batchDelayMs = ResolveBatchDelayMs(config)
         /\ ~RateLimited(event)
              => /\ PayloadsOf(event) # {}
                 /\ \A payload \in PayloadsOf(event) :
                      /\ DOMAIN payload
                           = DOMAIN options \cup { "message", "timestamp" }
                      /\ \A k \in DOMAIN options \ { "message", "timestamp" } :
                           payload[k] = options[k]
                 /\ event.call.id \in Queued
                      <=> ( /\ BoolField(config, "batchingEnabled")
                            /\ ~( /\ Has(options, "priority")
                                  /\ options.priority = "high" ) )

\* a second argument with batchingEnabled and no option key is configuration:
\* the call is queued with the category of the third argument in its payload
C26_Witness ==
  /\ event.type = "call"
  /\ event.call.args.configOrOptions = [batchingEnabled |-> TRUE]
  /\ event.call.args.options = [category |-> "c"]
  /\ Len(notificationQueue) = 1
  /\ notificationQueue[1].payload.category = "c"
  /\ ~Has(notificationQueue[1].payload, "batchingEnabled")

\* the call gives one object with a priority, an apiKey and a backendUrl
OneObjectWithKey(e) ==
  /\ e.type = "call"
  /\ Has(e.call.args.configOrOptions, "priority")
  /\ Has(e.call.args.configOrOptions, "apiKey")
  /\ Has(e.call.args.configOrOptions, "backendUrl")

\* C27: a call of page() with one object that holds a priority and explicit
\* apiKey and backendUrl values issues a request to that backendUrl, with the
\* header Authorization: Bearer followed by that apiKey, and with a body that
\* does not hold the apiKey.
C27_KeyInHeaderNotInBody ==
  OneObjectWithKey(event)
  => LET given == event.call.args.configOrOptions
     IN  /\ Len(event.issued) = 1
         /\ event.issued[1].url = given.backendUrl
         /\ Has(event.issued[1].headers, "Authorization")
         /\ event.issued[1].headers.Authorization = <<"Bearer ">> \o given.apiKey
         /\ ~Has(event.issued[1].body, "apiKey")

\* the call of the README, with the server-side values passed in one object
\* and client-side values in the environment as well: the request carries the
\* client-side key in its header and the server-side key in its body
C27_Witness ==
  /\ OneObjectWithKey(event)
  /\ event.call.args.configOrOptions.apiKey = <<"sk">>
  /\ StrField(env, "PAGER_API_KEY") = <<"sk">>
  /\ event.issued[1].headers.Authorization = <<"Bearer ", "pk">>
  /\ event.issued[1].body.apiKey = <<"sk">>
  /\ event.issued[1].url = <<"su">>

----------------------------------------------------------------------------
(* Server-only values *)

ServerOnly == { "PAGER_API_KEY", "PAGER_BACKEND_URL", "PAGER_DEBUG" }

\* the environment with the server-only values taken out
WithoutServerOnly(e) == [k \in DOMAIN e \ ServerOnly |-> e[k]]

\* C28: in a browser the resolved apiKey, backendUrl and debug are what they
\* would be were PAGER_API_KEY, PAGER_BACKEND_URL and PAGER_DEBUG not set: no
\* server-only value reaches them, nor the request made with them.
C28_NoServerValuesInBrowser ==
  ( event.type = "call" /\ IsBrowser(env) )
  => LET config == ConfigOf(event.call.args)
         public == WithoutServerOnly(env)
     IN  /\ event.call.cfg.apiKey = ResolveApiKey(config, public)
         /\ event.call.cfg.backendUrl = ResolveBackendUrl(config, public)
         /\ event.call.cfg.debug = ResolveDebug(config, public)
         /\ \A i \in DOMAIN event.issued :
              /\ event.issued[i].url = ResolveBackendUrl(config, public)
              /\ event.issued[i].headers
                   = Headers(ResolveApiKey(config, public))

\* page('m') in a browser whose bundle has PAGER_API_KEY and PAGER_BACKEND_URL:
\* the request goes to the server-only URL with the server-only key
C28_Witness ==
  /\ event.type = "call"
  /\ IsBrowser(env)
  /\ event.call.args.configOrOptions = NoOptions
  /\ event.call.args.options = NoOptions
  /\ Len(event.issued) = 1
  /\ StrField(env, "PAGER_API_KEY") # <<>>
  /\ StrField(env, "PAGER_BACKEND_URL") # <<>>
  /\ event.issued[1].url = env.PAGER_BACKEND_URL
  /\ event.issued[1].headers.Authorization = <<"Bearer ">> \o env.PAGER_API_KEY
  /\ event.call.cfg.debug

----------------------------------------------------------------------------
(* The limiter under interleaving *)

\* every call made before the last one was sent solo and its request has not
\* been answered yet
EarlierInFlight(e) ==
  /\ e.call.id > 1
  /\ \A c \in 1..(e.call.id - 1) :
       /\ calls[c].route = "solo"
       /\ \E r \in DOMAIN requests :
            /\ requests[r].owner = c
            /\ requests[r].kind = "solo"
            /\ requests[r].phase = "fetch"

\* C30: a solo call that is not of high priority and runs its throttle check
\* while the requests of all the earlier calls are still to be answered passes
\* the check and issues a request of its own, however short the time since
\* the earlier calls.
C30_ChecksBeforeCompletionPass ==
  ( /\ event.type = "call"
    /\ ~IsHighPriority(OptionsOf(event))
    /\ EarlierInFlight(event) )
  => /\ ~RateLimited(event)
     /\ Len(event.issued) = 1
     /\ event.issued[1].kind = "solo"
     /\ requests[Len(requests)] = event.issued[1]

\* two solo requests in flight, sent 500 ms apart under a throttleMs of 1000
C30_Witness ==
  /\ event.type = "call"
  /\ EarlierInFlight(event)
  /\ event.call.id = 2
  /\ event.call.cfg.throttleMs = 1000
  /\ Len(requests) = 2
  /\ requests[2].sentAt - requests[1].sentAt = 500
  /\ requests[1].phase = "fetch"
  /\ requests[2].phase = "fetch"

----------------------------------------------------------------------------
(* clearNotificationQueue() at any time *)

\* the calls whose entries are in the queue
QueuedIn(queue) == { queue[i].call : i \in DOMAIN queue }

\* the calls whose entries the runs of processBatch() hold
DrainingIn(fs) ==
  UNION { UNION { { fs[f].groups[g].notifications[i].call :
                      i \in DOMAIN fs[f].groups[g].notifications } :
                  g \in DOMAIN fs[f].groups } :
          f \in DOMAIN fs }

\* C31: clearNotificationQueue() can be called in every state.  With an empty
\* queue and no timer it changes nothing.  Called while a processBatch() is
\* awaiting a request, it resolves the entries queued since that run emptied
\* the queue and no others: the entries being sent, their request and the run
\* are left as they were.  Every resolver that a flush or a clear calls is
\* called for the first time, so no resolver is called twice; an entry in the
\* queue has not had its resolver called, and an entry that is neither in the
\* queue nor held by a running processBatch() has had it called once.
C31_ClearIsSafe ==
  [][ /\ ( /\ event'.type = "clear"
           /\ notificationQueue = <<>>
           /\ batchTimeout = <<>> )
         => /\ event'.settled = <<>>
            /\ UNCHANGED <<now, env, lastNotificationTime, notificationQueue,
                           batchTimeout, requests, flushes, calls>>
      /\ event'.type = "clear"
         => /\ { event'.settled[i].call : i \in DOMAIN event'.settled }
                 = QueuedIn(notificationQueue)
            /\ QueuedIn(notificationQueue) \cap DrainingIn(flushes) = {}
            /\ \A c \in DOMAIN calls \ QueuedIn(notificationQueue) :
                 calls'[c] = calls[c]
            /\ requests' = requests
            /\ flushes' = flushes
      /\ \A i \in DOMAIN event'.settled :
           /\ event'.settled[i].first
           /\ event'.type # "call"
              => calls[event'.settled[i].call].resolves = 0
           /\ calls'[event'.settled[i].call].resolves = 1
      /\ \A c \in DOMAIN calls' :
           /\ calls'[c].resolves <= 1
           /\ c \in QueuedIn(notificationQueue') => calls'[c].resolves = 0
           /\ ( /\ calls'[c].route = "batched"
                /\ c \notin QueuedIn(notificationQueue')
                /\ c \notin DrainingIn(flushes') )
              => calls'[c].resolves = 1 ]_vars

\* the queue was cleared while a processBatch() awaited its request: the entry
\* queued since is resolved, the entry being sent is pending and its request
\* is in flight
C31_Witness ==
  /\ event.type = "clear"
  /\ Len(event.settled) = 1
  /\ FlushInFlight
  /\ \E r \in DOMAIN requests :
       /\ requests[r].kind = "batch"
       /\ \E c \in DOMAIN calls :
            /\ Carries(requests[r], c) = 1
            /\ calls[c].state = "pending"
            /\ c # event.settled[1].call
  /\ calls[event.settled[1].call].resolves = 1

----------------------------------------------------------------------------
(* The flush timer *)

\* the last step was a call of page() that put its entry in the queue
Enqueued(e, queue) ==
  /\ e.type = "call"
  /\ \E i \in DOMAIN queue : queue[i].call = e.call.id

\* C32: there is never more than one flush timer.  A timer is started only by
\* a call that puts its entry in the queue and finds no timer active, and it
\* is then due batchDelayMs of that call after the call, with the debug flag
\* of that call; a call that finds a timer active leaves it as it is, whatever
\* its own batchDelayMs and debug flag are.  An active timer is changed by
\* nothing but the flush it starts and clearNotificationQueue(), which both
\* remove it; the flush runs when the timer is due and with the timer's flag.
C32_OneTimerFromFirstEnqueue ==
  [][ /\ Len(batchTimeout') <= 1
      /\ Enqueued(event', notificationQueue')
         => IF batchTimeout = <<>>
            THEN batchTimeout'
                   = << [deadline |-> now + event'.call.cfg.batchDelayMs,
                         debug |-> event'.call.cfg.debug] >>
            ELSE batchTimeout' = batchTimeout
      /\ batchTimeout' # batchTimeout
         => \/ Enqueued(event', notificationQueue') /\ batchTimeout = <<>>
            \/ event'.type \in { "flush", "clear" } /\ batchTimeout' = <<>>
      /\ event'.type = "flush"
         => /\ batchTimeout # <<>>
            /\ now = batchTimeout[1].deadline
            /\ notificationQueue # <<>>
            /\ flushes'[Len(flushes')].debug = batchTimeout[1].debug ]_vars

\* a second call, with the default delay of 2000 ms and without debug, was
\* queued 500 ms after a first with a delay of 1000 ms and with debug: the
\* timer is still due 1000 ms after the first call, with the flag of the first
C32_Witness ==
  /\ Enqueued(event, notificationQueue)
  /\ Len(notificationQueue) = 2
  /\ event.call.cfg.batchDelayMs = DEFAULT_BATCH_DELAY_MS
  /\ ~event.call.cfg.debug
  /\ event.call.at = calls[notificationQueue[1].call].at + 500
  /\ batchTimeout = << [deadline |-> calls[notificationQueue[1].call].at + 1000,
                        debug |-> TRUE] >>

----------------------------------------------------------------------------
(* A flush with several groups *)

\* the calls whose entries are in the group
CallsOfGroup(group) ==
  { group.notifications[i].call : i \in DOMAIN group.notifications }

\* the last step ended the batch request of a group: its body was read, or
\* its fetch failed
BatchRequestEnded(e) ==
  /\ e.type \in { "bodyRead", "fetchRejected" }
  /\ e.call.kind = "batch"

\* C33: the groups of one flush are sent one after another: a flush has at
\* most one request in flight, the request of a group is issued in the step
\* that ends the request of the group before it, and while the request of a
\* group is in flight no entry of a later group has been sent or resolved.
\* The step that ends the request of a group, with success or with a failure,
\* resolves the entries of that group, all with the outcome of that request,
\* and leaves the promises of all other calls as they were; after a failure
\* the request of the next group is issued all the same, and processBatch()
\* returns only after the last group.
C33_GroupsSentInTurn ==
  [][ /\ \A f \in DOMAIN flushes' :
           /\ Cardinality({ r \in DOMAIN requests' :
                              /\ requests'[r].kind = "batch"
                              /\ requests'[r].owner = f }) <= 1
           /\ \A r \in DOMAIN requests' :
                ( requests'[r].kind = "batch" /\ requests'[r].owner = f )
                => \A g \in DOMAIN flushes'[f].groups :
                     \A c \in CallsOfGroup(flushes'[f].groups[g]) :
                       /\ g < requests'[r].group => calls'[c].resolves = 1
                       /\ g > requests'[r].group
                          => calls'[c].resolves = 0 /\ calls'[c].sent = 0
      /\ BatchRequestEnded(event')
         => LET f == event'.call.owner
                g == event'.call.group
                group == flushes[f].groups[g]
                failed == event'.type = "fetchRejected" \/ ~event'.call.ok
            IN  /\ { event'.settled[i].call : i \in DOMAIN event'.settled }
                     = CallsOfGroup(group)
                /\ \A i \in DOMAIN event'.settled :
                     event'.settled[i].response.success = ~failed
                /\ \A c \in DOMAIN calls \ CallsOfGroup(group) :
                     /\ calls'[c].state = calls[c].state
                     /\ calls'[c].resolves = calls[c].resolves
                /\ IF g < Len(flushes[f].groups)
                   THEN /\ Len(event'.issued) = 1
                        /\ event'.issued[1].kind = "batch"
                        /\ event'.issued[1].owner = f
                        /\ event'.issued[1].group = g + 1
                        /\ event'.issued[1].body.notifications
                             = [i \in DOMAIN flushes[f].groups[g + 1].notifications
                                  |-> flushes[f].groups[g + 1].notifications[i].payload]
                        /\ flushes'[f] = flushes[f]
                   ELSE /\ event'.issued = <<>>
                        /\ flushes'[f] = Returned ]_vars

\* the request of the first of two groups failed on the network: its entry is
\* resolved with the failure, the request of the second group is in flight
\* and the entry of the second group is pending
C33_Witness ==
  /\ BatchRequestEnded(event)
  /\ event.type = "fetchRejected"
  /\ event.call.group = 1
  /\ Len(event.settled) = 1
  /\ ~event.settled[1].response.success
  /\ Len(event.issued) = 1
  /\ event.issued[1].group = 2
  /\ \E c \in DOMAIN calls :
       /\ Carries(event.issued[1], c) = 1
       /\ calls[c].state = "pending"
       /\ c # event.settled[1].call

----------------------------------------------------------------------------
(* The answer to a batch *)

\* the fields processBatch() sets in the response of a batch that succeeded
SetOnSuccess == { "success", "timestamp", "batched", "batchSize" }

\* the response holds the fields of the body that processBatch() does not
\* set, with the values of the body, and no others
AddsFieldsOf(response, body) ==
  /\ DOMAIN response = DOMAIN body \cup SetOnSuccess
  /\ \A k \in DOMAIN body \ SetOnSuccess : response[k] = body[k]

\* C34: when the batch request of a group is answered 2xx, every entry of the
\* group is resolved with success true, batched true, batchSize the number of
\* entries of the group and the timestamp made when its call was made, also
\* when the JSON body of the answer has a success, a batched, a batchSize or
\* a timestamp field of its own; the other fields of the response are those
\* of the body (none when the body is not JSON).
C34_BodyCannotOverride ==
  ( /\ event.type = "bodyRead"
    /\ event.call.kind = "batch"
    /\ event.call.ok )
  => /\ Len(event.settled) = Len(event.call.body.notifications)
     /\ \A i \in DOMAIN event.settled :
          /\ Carries(event.call, event.settled[i].call) = 1
          /\ event.settled[i].response.success = TRUE
          /\ event.settled[i].response.batched = TRUE
          /\ event.settled[i].response.batchSize
               = Len(event.call.body.notifications)
          /\ event.settled[i].response.timestamp
               = CallTimestamp(event.settled[i].call)
          /\ \E body \in OwnFieldBodies \cup { <<>> } :
               AddsFieldsOf(event.settled[i].response, body)

\* a batch of two was answered 2xx with a body that says success false,
\* batched false and batchSize 0, and has an error field: both calls are
\* resolved with success true, batched true and batchSize 2, and with the
\* error field of the body
C34_Witness ==
  /\ event.type = "bodyRead"
  /\ event.call.kind = "batch"
  /\ event.call.ok
  /\ Len(event.settled) = 2
  /\ \A i \in DOMAIN event.settled :
       /\ Has(event.settled[i].response, "error")
       /\ event.settled[i].response.error = <<"quota exceeded">>
       /\ event.settled[i].response.success
       /\ event.settled[i].response.batched
       /\ event.settled[i].response.batchSize = 2

----------------------------------------------------------------------------
(* Where a request goes and what it is authorized with *)

\* the request goes to url and carries the apiKey, unchanged, as a Bearer
\* token if the apiKey is not empty, and no Authorization header otherwise
AddressedWith(request, url, apiKey) ==
  /\ request.url = url
  /\ Has(request.headers, "Authorization") <=> apiKey # <<>>
  /\ apiKey # <<>> => request.headers.Authorization = <<"Bearer ">> \o apiKey

\* C35, as stated: a solo request goes to the backendUrl resolved for its
\* call and a batch request to backendUrl + "/batch" for the backendUrl of
\* every entry it carries; each has the header Authorization: Bearer <apiKey>
\* if and only if the apiKey, of the call or of every entry, is not empty,
\* with the apiKey unchanged, also when a backendUrl or an apiKey holds "|".
C35_AddressedFromResolvedValues ==
  /\ ( event.type = "call" /\ event.issued # <<>> )
     => /\ Len(event.issued) = 1
        /\ AddressedWith(event.issued[1], event.call.cfg.backendUrl,
                         event.call.cfg.apiKey)
  /\ \A r \in DOMAIN requests :
       requests[r].kind = "batch"
       => LET group == flushes[requests[r].owner].groups[requests[r].group]
          IN  \A i \in DOMAIN group.notifications :
                AddressedWith(requests[r],
                              group.notifications[i].backendUrl \o <<"/batch">>,
                              group.notifications[i].apiKey)

\* a batch request carries an entry whose apiKey is k|2 and is authorized
\* with Bearer k
C35_Witness ==
  \E r \in DOMAIN requests :
    /\ requests[r].kind = "batch"
    /\ requests[r].headers.Authorization = <<"Bearer ", "k">>
    /\ LET group == flushes[requests[r].owner].groups[requests[r].group]
       IN  \E i \in DOMAIN group.notifications :
             /\ group.notifications[i].apiKey = <<"k", "|", "2">>
             /\ Carries(requests[r], group.notifications[i].call) = 1

----------------------------------------------------------------------------
(* Following retryAfter *)

\* C36: a caller that was throttled at time t with retryAfter = r, waits
\* until t + r * 1000 ms or longer and makes the same call again, with the
\* same throttleMs, is not throttled, provided that no response to a solo
\* request has arrived in between (lastNotificationTime is what it was at the
\* first call).
C36_RetryAfterIsEnough ==
  [][ ( /\ event.type = "sleep"
        /\ event'.type = "call"
        /\ event'.call.args = event.call.args
        /\ event'.call.at >= event.call.at
                               + event.settled[1].response.retryAfter * 1000
        /\ event'.call.last = event.call.last )
      => /\ ~RateLimited(event')
         /\ Len(event'.issued) = 1
         /\ event'.issued[1].kind = "solo" ]_vars

\* a call with throttleMs 1500 was throttled 500 ms after the limiter was
\* set, with retryAfter 1; made again exactly 1000 ms later, when the window
\* ends, it is sent
C36_Witness ==
  /\ event.type = "call"
  /\ event.call.cfg.throttleMs = 1500
  /\ event.call.last > 0
  /\ event.call.at = event.call.last + 1500
  /\ ~RateLimited(event)
  /\ \E c \in DOMAIN calls :
       /\ calls[c].route = "throttled"
       /\ calls[c].at = event.call.last + 500
       /\ calls[c].at + RetryAfterSec(calls[c].at, event.call.last, 1500) * 1000
            = event.call.at

----------------------------------------------------------------------------
(* High priority sends and the limiter *)

\* the solo requests of high priority notifications whose response has
\* arrived and whose body is being read
HighAnswered ==
  { r \in DOMAIN requests :
      /\ requests[r].kind = "solo"
      /\ requests[r].phase = "body"
      /\ IsHighPriority(requests[r].body) }

\* C37: a high priority notification is sent by sendNotification() like any
\* solo notification: the arrival of the response to its request sets
\* lastNotificationTime to the time of the arrival, and a call that is not of
\* high priority and is made after that arrival, less than its throttleMs
\* after the limiter was last set, is throttled.
C37_HighPrioritySetsLimiter ==
  /\ ( /\ event.type = "fetchResolved"
       /\ event.call.kind = "solo"
       /\ IsHighPriority(event.call.body) )
     => lastNotificationTime = now
  /\ \A r \in HighAnswered :
       /\ lastNotificationTime >= requests[r].sentAt
       /\ lastNotificationTime > 0
       /\ ( /\ event.type = "call"
            /\ ~IsHighPriority(OptionsOf(event))
            /\ event.call.id # requests[r].owner )
          => /\ event.call.last >= requests[r].sentAt
             /\ event.call.at - event.call.last < event.call.cfg.throttleMs
                => RateLimited(event)

\* the only notification sent so far is of high priority; a call that is not
\* of high priority, made 500 ms after the response to it arrived, is throttled
C37_Witness ==
  /\ RateLimited(event)
  /\ Len(calls) = 2
  /\ calls[1].route = "solo"
  /\ 1 \in { requests[r].owner : r \in HighAnswered }
  /\ event.call.at = event.call.last + 500

----------------------------------------------------------------------------
(* The limiter before the first response *)

\* the step is the arrival of the response to a solo request
SoloResponseArrives(e) == e.type = "fetchResolved" /\ e.call.kind = "solo"

\* C38: lastNotificationTime is unset at the start and stays unset until the
\* response to a solo request arrives: no call, queued or sent, no flush, no
\* answer to a batch, no failure, no timeout and no clear sets it.  While it
\* is unset no call is throttled, however many calls were made and however
\* close together; so when every call so far was queued, the limiter is unset
\* and no call was rejected.
C38_NoThrottleBeforeFirstResponse ==
  [][ /\ ( lastNotificationTime = 0 /\ ~SoloResponseArrives(event') )
         => lastNotificationTime' = 0
      /\ ( lastNotificationTime = 0 /\ event'.type = "call" )
         => /\ ~RateLimited(event')
            /\ calls'[event'.call.id].route # "throttled"
      /\ lastNotificationTime' = 0
         => \A c \in DOMAIN calls' : calls'[c].route # "throttled"
      /\ ( \A c \in DOMAIN calls' : calls'[c].route = "batched" )
         => lastNotificationTime' = 0 ]_vars

\* a second call that is not of high priority is made at the very instant of
\* the first, with the default throttleMs: both are queued, none is rejected
\* and the limiter is unset
C38_Witness ==
  /\ event.type = "call"
  /\ event.call.id = 2
  /\ ~IsHighPriority(OptionsOf(event))
  /\ event.call.cfg.throttleMs = DEFAULT_THROTTLE_MS
  /\ calls[1].at = event.call.at
  /\ \A c \in DOMAIN calls : calls[c].route = "batched"
  /\ ~RateLimited(event)
  /\ lastNotificationTime = 0

----------------------------------------------------------------------------
(* One limiter for all endpoints *)

\* the solo requests that were answered, whose body is being read, and that
\* went to another backendUrl or carried another apiKey than the call's
AnsweredElsewhere(call) ==
  { r \in DOMAIN requests :
      /\ requests[r].kind = "solo"
      /\ requests[r].phase = "body"
      /\ requests[r].owner # call.id
      /\ \/ requests[r].url # call.cfg.backendUrl
         \/ requests[r].headers # Headers(call.cfg.apiKey) }

\* C39: the limiter is one timestamp for all endpoints and credentials.  A
\* call that is not of high priority and is made after the response to a solo
\* request sent to another backendUrl or with another apiKey has arrived
\* finds the limiter set by a response, and is throttled if and only if less
\* than its own throttleMs (the value of its own configuration, or the
\* default) have passed since the limiter was set; the sends of this scenario
\* are all made with the default throttleMs of 5000 ms, and a call with
\* throttleMs 1000 made 1000 ms after one of them was answered is let through.
C39_OneLimiterOwnWindow ==
  ( /\ event.type = "call"
    /\ ~IsHighPriority(OptionsOf(event))
    /\ AnsweredElsewhere(event.call) # {} )
  => /\ event.call.last > 0
     /\ \A r \in AnsweredElsewhere(event.call) :
          event.call.last >= requests[r].sentAt
     /\ RateLimited(event)
          <=> event.call.at - event.call.last
                < OrNum(NumField(ConfigOf(event.call.args), "throttleMs"),
                        DEFAULT_THROTTLE_MS)
     /\ ( /\ NumField(ConfigOf(event.call.args), "throttleMs") = 1000
          /\ event.call.at - event.call.last >= 1000 )
        => ~RateLimited(event)

\* a call for backendUrl u with apiKey k is throttled 500 ms after the
\* response to a request that went to the default endpoint without an apiKey
C39_Witness ==
  /\ RateLimited(event)
  /\ event.call.cfg.backendUrl = <<"u">>
  /\ event.call.cfg.apiKey = <<"k">>
  /\ event.call.at = event.call.last + 500
  /\ \E r \in AnsweredElsewhere(event.call) :
       /\ requests[r].url = DEFAULT_BACKEND_URL
       /\ ~Has(requests[r].headers, "Authorization")

----------------------------------------------------------------------------
(* What is written to the console *)

\* the console calls of page() up to its return or its first await:
\* console.warn for the public key in a browser, whatever debug is, and with
\* debug the warning of the throttled call, the log of the queued call or the
\* two logs of sendNotification()
ConsoleOfCall(e, queue) ==
  ( IF /\ IsBrowser(env)
       /\ e.call.cfg.apiKey # <<>>
       /\ e.call.cfg.apiKey = StrField(env, "NEXT_PUBLIC_PAGER_API_KEY")
    THEN << [level |-> "warn", text |-> "Security Warning"] >>
    ELSE <<>> )
  \o ( IF ~e.call.cfg.debug THEN <<>>
       ELSE IF RateLimited(e)
       THEN << [level |-> "warn", text |-> "Rate limited"] >>
       ELSE IF Enqueued(e, queue)
       THEN << [level |-> "log", text |-> "Added notification to batch queue"] >>
       ELSE << [level |-> "log", text |-> "Sending notification"],
               [level |-> "log", text |-> "Using backend URL"] >> )

\* the console calls of sendNotification() once its request has ended:
\* console.warn for a response that is not 2xx and for an error thrown by
\* fetch, whatever debug is, and with debug a console.error or console.log
ConsoleOfSolo(e) ==
  IF e.type = "bodyRead" /\ ~e.call.ok
  THEN ( IF e.call.debug
         THEN << [level |-> "error", text |-> "Error response"] >>
         ELSE <<>> )
       \o << [level |-> "warn", text |-> "Notification failed"] >>
  ELSE IF e.type = "bodyRead"
  THEN IF e.call.debug
       THEN << [level |-> "log", text |-> "Notification sent successfully"] >>
       ELSE <<>>
  ELSE IF e.type \in { "fetchRejected", "aborted" }
  THEN << [level |-> "warn", text |-> "Error sending notification"] >>
       \o ( IF e.call.debug
            THEN << [level |-> "error", text |-> "Error details"] >>
            ELSE <<>> )
  ELSE <<>>

\* the console calls of processBatch(debug) at its start and once the request
\* of a group has ended: none without debug
ConsoleOfBatch(e, debug) ==
  IF ~debug THEN <<>>
  ELSE IF e.type = "flush"
  THEN IF e.issued # <<>>
       THEN << [level |-> "log", text |-> "Processing batch"] >>
       ELSE <<>>
  ELSE IF e.type = "bodyRead" /\ ~e.call.ok
  THEN << [level |-> "error", text |-> "Batch request failed"] >>
  ELSE IF e.type = "bodyRead"
  THEN << [level |-> "log", text |-> "Batch sent successfully"] >>
  ELSE IF e.type = "fetchRejected"
  THEN << [level |-> "error", text |-> "Error sending batch"] >>
  ELSE <<>>

\* the step belongs to a run of processBatch()
BatchStep(e) ==
  \/ e.type = "flush"
  \/ e.type \in { "fetchResolved", "bodyRead", "fetchRejected" }
     /\ e.call.kind = "batch"

\* the step belongs to a run of sendNotification() after its await
SoloStep(e) ==
  /\ e.type \in { "fetchResolved", "bodyRead", "fetchRejected", "aborted" }
  /\ e.call.kind = "solo"

\* what the step wrote to the console; debug is the parameter of the run of
\* processBatch() when the step belongs to one; clearNotificationQueue()
\* writes nothing
Console(e, queue, debug) ==
  IF e.type = "call" THEN ConsoleOfCall(e, queue)
  ELSE IF SoloStep(e) THEN ConsoleOfSolo(e)
  ELSE IF BatchStep(e) THEN ConsoleOfBatch(e, debug)
  ELSE <<>>

\* the step resolves a call with a failure that has a debug flag to go by:
\* a throttled call, a solo request or the request of a group that ended
\* with a response that is not 2xx, with an error or with the timeout
FailurePath(e) ==
  /\ e.type \in { "call", "bodyRead", "fetchRejected", "aborted" }
  /\ e.settled # <<>>
  /\ \A i \in DOMAIN e.settled :
       /\ Has(e.settled[i].response, "success")
       /\ e.settled[i].response.success = FALSE

\* C40, as stated: a step made with debug resolved to false (a call of
\* page(), the sendNotification() it started, a flush started by a timer
\* without debug) writes nothing to the console on any path, and
\* clearNotificationQueue() writes nothing; a step made with debug true that
\* resolves a call with a failure writes at least one entry.
C40_SilentUnlessDebug ==
  [][ LET debug ==
            IF event'.type = "call" THEN event'.call.cfg.debug
            ELSE IF SoloStep(event') THEN event'.call.debug
            ELSE IF event'.type = "flush"
            THEN batchTimeout # <<>> /\ batchTimeout[1].debug
            ELSE IF BatchStep(event') THEN flushes[event'.call.owner].debug
            ELSE FALSE
          console == Console(event', notificationQueue', debug)
      IN  /\ ~debug => console = <<>>
          /\ ( debug /\ FailurePath(event') ) => console # <<>> ]_vars

\* a call made without debug was sent, the backend answered with a status
\* that is not 2xx, and console.warn was called with "Notification failed"
C40_Witness ==
  /\ event.type = "bodyRead"
  /\ event.call.kind = "solo"
  /\ ~event.call.ok
  /\ ~event.call.debug
  /\ IsFailure(event.settled[1].response)
  /\ Console(event, notificationQueue, FALSE)
       = << [level |-> "warn", text |-> "Notification failed"] >>

====
